---------------------------- MODULE Spec2Model ----------------------------
(***************************************************************************)
(* Model of the adaptive-audio engine (AdaptiveAudioPlayer):               *)
(* the mix curve, the per-sound playback lifecycle, the drift monitor and  *)
(* the volume propagation of the intensity / master / custom-mix setters.  *)
(*                                                                         *)
(* Number representation.  Intensity, curve values and custom volumes are  *)
(* kept in units of 1/One, One = Percent*IntensityRes.  The master volume  *)
(* is kept in percent and a sound's own volume in units of 1/BaseRes.  A   *)
(* layer volume is the exact product, in units of 1/VolOne.  Layer clocks  *)
(* are in units of 50 ms (0.1 s = 2 units, 0.2 s = 4 units).               *)
(***************************************************************************)
EXTENDS Integers, Sequences, FiniteSets, TLC

VARIABLES
    playingSounds,        \* Map soundId -> entry (layer -> Sound object state)
    loadingSounds,        \* Set of soundIds whose load is in flight
    driftMonitorInterval, \* TRUE: interval scheduled, FALSE: null
    intensity,            \* this.intensity
    masterVolume,         \* this.masterVolume
    customMixEnabled,     \* this.customMixEnabled
    customVolume,         \* customLowVolume / customMidVolume / customHighVolume
    loadingCalls,         \* per sound: _playAdaptiveSound calls suspended on Promise.all(load)
    updatingCalls,        \* per sound: _playAdaptiveSound calls suspended on sound.update
    updates,              \* per sound: internal sound.update requests not yet applied (FIFO)
    docPlaying,           \* per sound: document field `playing`
    docVolume,            \* per sound: document field `volume`
    docRepeat,            \* per sound: document field `repeat`
    paths,                \* per sound: the layers that have a path configured
    mode,                 \* per playlist: playback mode
    exists,               \* sound documents that exist
    isOwner,              \* sound.isOwner on this client
    orphans,              \* Sound objects that are playing but referenced by no entry
    preCombatIntensity,   \* this.preCombatIntensity (NoSnapshot: null)
    userOverrideDuringCombat, \* this.userOverrideDuringCombat
    settings,             \* persisted module settings written by the engine
    isGM,                 \* game.user.isGM on this client
    mixArg,               \* argument of a direct calculateMix call
    mixResult,            \* its result (or "none")
    fadeInterval,         \* this.fadeInterval: the running fade (NoFade: null)
    combats,              \* game.combats on this client: the state of each encounter
    inbox,                \* per client: world-setting changes and combat events not yet delivered
    peer,                 \* the engine of a second, non-authoritative client
    broken,               \* <<soundId, layer>> pairs whose Sound object throws on access
    nativeSync,           \* the last call of the patched PlaylistSound.prototype.sync
    intervals,            \* the host's timer table: the fade intervals set and not cleared
    lastOp                \* the handler that ran last and what it did

lifeVars == <<playingSounds, loadingSounds, driftMonitorInterval, loadingCalls,
              updatingCalls, updates, docPlaying, orphans>>
mixVars  == <<intensity, masterVolume, customMixEnabled, customVolume>>
policyVars == <<preCombatIntensity, userOverrideDuringCombat, settings, isGM>>
docVars  == <<docVolume, docRepeat, paths, mode, exists, isOwner>>
calcVars == <<mixArg, mixResult>>
syncVars == <<fadeInterval, combats, inbox, peer>>
hostVars == <<broken, nativeSync, intervals>>
vars     == <<lifeVars, mixVars, policyVars, docVars, calcVars, syncVars, hostVars, lastOp>>

---------------------------------------------------------------------------
(* Fixed universe *)

Sounds    == {"a", "b", "c"}
Playlists == {"P1", "P2"}
Layers    == {"low", "mid", "high"}
Modes     == {"sequential", "simultaneous"}

Parent(s) == IF s = "c" THEN "P2" ELSE "P1"

Percent        == 100  \* settings hold percentages: value / 100
DriftThreshold == 2    \* 0.1 s
EndWindow      == 4    \* 0.2 s

IntensityRes == 1      \* steps per percent of intensity
BaseRes     == 2       \* resolution of a sound's own volume
TrackLen    == 6       \* duration of every layer, in clock units
MaxInFlight == 2       \* start requests outstanding per sound
MaxQueue    == 2       \* unapplied document updates per sound
MaxOrphans  == 2       \* cap of the orphan counter
MaxInbox    == 2       \* undelivered changes per client
FadeSteps   == 4       \* clock units in the 2000 ms of a combat fade
FadeJitter  == 2       \* clock units between two fade ticks, at most
MaxBroken   == 1       \* Sound objects that have become invalid
MixRange    == 60      \* direct calculateMix arguments: -MixRange .. One+MixRange

NoSnapshot == 0 - 1    \* preCombatIntensity === null

\* this.fadeInterval === null
NoFade == [active |-> FALSE, start |-> 0, target |-> 0, elapsed |-> 0, duration |-> 0]

Encounters == {"e1", "e2"}

\* the patched sync has not been called yet
NoSync == [sound |-> "-", flag |-> "missing", mid |-> FALSE, low |-> FALSE,
           fault |-> "none", original |-> FALSE]

\* no encounter has been started yet
NoCombats == [c \in Encounters |-> "created"]

\* the second client's engine after construction; not connected
NoPeer == [connected |-> FALSE, intensity |-> (50 * (Percent * IntensityRes)) \div Percent,
           fadeInterval |-> NoFade, preCombatIntensity |-> NoSnapshot,
           userOverrideDuringCombat |-> FALSE, combats |-> NoCombats]

One    == Percent * IntensityRes
VolOne == One * Percent * BaseRes

\* the number NaN: a value apart from every number the model computes; every
\* comparison with it is false and arithmetic on it gives NaN again
NaN == 0 - VolOne

Min(x, y) == IF x < y THEN x ELSE y
Max(x, y) == IF x > y THEN x ELSE y
Abs(x)    == IF x < 0 THEN -x ELSE x

---------------------------------------------------------------------------
(* Mix Curve Calculator *)

P25 == One \div 4
P50 == One \div 2
P75 == (3 * One) \div 4

LowPoints  == << [p |-> 0, v |-> One], [p |-> P25, v |-> 0], [p |-> P50, v |-> One],
                 [p |-> P75, v |-> 0], [p |-> One, v |-> One] >>
\* mutation: Mid reaches full volume at 0.5 instead of 0.25
MidPoints_late == << [p |-> 0, v |-> 0], [p |-> P50, v |-> One], [p |-> One, v |-> One] >>

MidPoints  == << [p |-> 0, v |-> 0], [p |-> P25, v |-> One], [p |-> One, v |-> One] >>
\* mutation: High ramps in between 0.25 and 0.5
HighPoints_early == << [p |-> 0, v |-> 0], [p |-> P25, v |-> 0], [p |-> P50, v |-> One],
                       [p |-> One, v |-> One] >>

HighPoints == << [p |-> 0, v |-> 0], [p |-> P50, v |-> 0], [p |-> P75, v |-> One],
                 [p |-> One, v |-> One] >>

\* mutation: the first segment is extended to every val
interpFrom_extrapolate(val, points, i) ==
    points[1].v + ((points[2].v - points[1].v) * (val - points[1].p))
                     \div (points[2].p - points[1].p)

\* the for loop of interp: the first segment that contains val decides; no
\* segment contains NaN, which falls through to the last point
RECURSIVE interpFrom(_, _, _)
interpFrom(val, points, i) ==
    IF i > Len(points) - 1
    THEN points[Len(points)].v
    ELSE LET p1 == points[i]
             p2 == points[i + 1]
         IN IF val >= p1.p /\ val <= p2.p
            THEN p1.v + ((p2.v - p1.v) * (val - p1.p)) \div (p2.p - p1.p)
            ELSE interpFrom(val, points, i + 1)

interp(val, points) == interpFrom(val, points, 1)

calculateMix(i) ==
    [low  |-> interp(i, LowPoints),
     mid  |-> interp(i, MidPoints),
     high |-> interp(i, HighPoints)]

---------------------------------------------------------------------------
(* The host's Sound primitive, as the engine uses it *)

NewSound == [playing |-> FALSE, volume |-> VolOne, currentTime |-> 0]

SoundPlay(snd, vol, offset) ==
    [playing |-> TRUE, volume |-> vol, currentTime |-> offset]

SoundStop(snd) == [snd EXCEPT !.playing = FALSE, !.currentTime = 0]

\* Math.max(0, Math.min(1, x)) on a value whose 1.0 is `one`; Math.min and
\* Math.max return NaN when an argument is NaN
Clamp01(x, one) == IF x = NaN THEN NaN ELSE Max(0, Min(one, x))

\* Math.round(intensity * 100)
RoundPercent(i) == IF i = NaN THEN NaN ELSE (2 * i * Percent + One) \div (2 * One)

---------------------------------------------------------------------------
(* Volume propagation *)

\* the values _applyIntensityToSound reads
CurEnv ==
    [intensity |-> intensity, masterVolume |-> masterVolume,
     customMixEnabled |-> customMixEnabled, customVolume |-> customVolume,
     docVolume |-> docVolume]

\* the custom-mix branch of _applyIntensityToSound
CustomVolumes(entry, soundId, env) ==
    LET effectiveMasterVolume == env.masterVolume * env.docVolume[soundId]
    IN [low  |-> env.customVolume["low"] * effectiveMasterVolume,
        mid  |-> env.customVolume["mid"] * effectiveMasterVolume,
        high |-> env.customVolume["high"] * effectiveMasterVolume]

\* mutation: Mid+High crossfades the wrong way round, and a single layer
\* follows the intensity
CurveVolumes_reversed(entry, soundId, env) ==
    LET hasLow  == "low" \in DOMAIN entry
        hasMid  == "mid" \in DOMAIN entry
        hasHigh == "high" \in DOMAIN entry
        effectiveMasterVolume == env.masterVolume * env.docVolume[soundId]
        progress == env.intensity
    IN IF hasLow /\ hasMid /\ hasHigh
       THEN LET mix == calculateMix(env.intensity)
            IN [low  |-> mix.low * effectiveMasterVolume,
                mid  |-> mix.mid * effectiveMasterVolume,
                high |-> mix.high * effectiveMasterVolume]
       ELSE IF ~hasLow /\ hasMid /\ hasHigh
       THEN [low  |-> 0,
             mid  |-> progress * effectiveMasterVolume,
             high |-> (One - progress) * effectiveMasterVolume]
       ELSE IF hasLow /\ ~hasMid /\ hasHigh
       THEN [low  |-> (One - progress) * effectiveMasterVolume,
             mid  |-> 0,
             high |-> progress * effectiveMasterVolume]
       ELSE IF hasLow /\ hasMid /\ ~hasHigh
       THEN [low  |-> (One - progress) * effectiveMasterVolume,
             mid  |-> progress * effectiveMasterVolume,
             high |-> 0]
       ELSE [low  |-> IF hasLow THEN progress * effectiveMasterVolume ELSE 0,
             mid  |-> IF hasMid THEN progress * effectiveMasterVolume ELSE 0,
             high |-> IF hasHigh THEN progress * effectiveMasterVolume ELSE 0]

\* the intensity branch of _applyIntensityToSound: scenarios 1 to 5
CurveVolumes(entry, soundId, env) ==
    LET hasLow  == "low" \in DOMAIN entry
        hasMid  == "mid" \in DOMAIN entry
        hasHigh == "high" \in DOMAIN entry
        effectiveMasterVolume == env.masterVolume * env.docVolume[soundId]
        progress == env.intensity
    IN IF hasLow /\ hasMid /\ hasHigh
       THEN LET mix == calculateMix(env.intensity)
            IN [low  |-> mix.low * effectiveMasterVolume,
                mid  |-> mix.mid * effectiveMasterVolume,
                high |-> mix.high * effectiveMasterVolume]
       ELSE IF ~hasLow /\ hasMid /\ hasHigh
       THEN [low  |-> 0,
             mid  |-> (One - progress) * effectiveMasterVolume,
             high |-> progress * effectiveMasterVolume]
       ELSE IF hasLow /\ ~hasMid /\ hasHigh
       THEN [low  |-> (One - progress) * effectiveMasterVolume,
             mid  |-> 0,
             high |-> progress * effectiveMasterVolume]
       ELSE IF hasLow /\ hasMid /\ ~hasHigh
       THEN [low  |-> (One - progress) * effectiveMasterVolume,
             mid  |-> progress * effectiveMasterVolume,
             high |-> 0]
       ELSE [low  |-> IF hasLow THEN One * effectiveMasterVolume ELSE 0,
             mid  |-> IF hasMid THEN One * effectiveMasterVolume ELSE 0,
             high |-> IF hasHigh THEN One * effectiveMasterVolume ELSE 0]

\* mutation: the custom-mix switch is not consulted
TargetVolumes_curveOnly(entry, soundId, env) == CurveVolumes(entry, soundId, env)

\* the per-layer target volumes _applyIntensityToSound computes for an entry
TargetVolumes(entry, soundId, env) ==
    IF env.customMixEnabled
    THEN CustomVolumes(entry, soundId, env)
    ELSE CurveVolumes(entry, soundId, env)

ApplyIntensityToSound(ps, soundId, env) ==
    IF soundId \notin DOMAIN ps
    THEN ps
    ELSE LET entry == ps[soundId]
             target == TargetVolumes(entry, soundId, env)
         IN [ps EXCEPT ![soundId] =
                [l \in DOMAIN entry |-> [entry[l] EXCEPT !.volume = target[l]]]]

\* mutation: the setter stores the value and does not re-apply the mix
ApplyToAll_skip(ps, ids, env) == ps

\* for (const soundId of this.playingSounds.keys()) this._applyIntensityToSound(soundId)
RECURSIVE ApplyToAll(_, _, _)
ApplyToAll(ps, ids, env) ==
    IF ids = {}
    THEN ps
    ELSE LET id == CHOOSE x \in ids : TRUE
         IN ApplyToAll(ApplyIntensityToSound(ps, id, env), ids \ {id}, env)

---------------------------------------------------------------------------
(* Playback Lifecycle Manager *)

\* the engine state a handler threads through the calls it makes;
\* notified and resynced record what the handler did
CurSt ==
    [ps |-> playingSounds, dmi |-> driftMonitorInterval, upd |-> updates,
     orph |-> orphans, notified |-> {}, resynced |-> {}]

PlayingLayers(entry) == {l \in DOMAIN entry : entry[l].playing}

\* mutation: the interval is not cleared
StopDriftMonitoring_keep(dmi) == dmi

StopDriftMonitoring(dmi) == FALSE

StartDriftMonitoring(dmi) == TRUE

\* entry.lowSound.stop(); entry.midSound.stop(); entry.highSound.stop()
StopLayers(entry) == [l \in DOMAIN entry |-> SoundStop(entry[l])]

\* the condition under which _stopAdaptiveSound requests playing:false
StopNotifies(soundId, skipUpdate) ==
    ~skipUpdate /\ isOwner /\ docPlaying[soundId] /\ soundId \in exists

\* _stopAdaptiveSound after its early return: stop the layers, delete the
\* entry, request playing:false, stop the monitor when nothing is left
StopEntry(st, soundId, skipUpdate) ==
    LET entry   == IF soundId \in DOMAIN st.ps
                   THEN st.ps[soundId]
                   ELSE [l \in {} |-> NewSound]
        stopped == StopLayers(entry)
        ps2     == [x \in (DOMAIN st.ps) \ {soundId} |-> st.ps[x]]
        notify  == StopNotifies(soundId, skipUpdate)
    IN [ps   |-> ps2,
        dmi  |-> IF DOMAIN ps2 = {} THEN StopDriftMonitoring(st.dmi) ELSE st.dmi,
        upd  |-> IF notify
                 THEN [st.upd EXCEPT ![soundId] = Append(@, FALSE)]
                 ELSE st.upd,
        orph |-> Min(MaxOrphans, st.orph + Cardinality(PlayingLayers(stopped))),
        notified |-> IF notify THEN st.notified \cup {soundId} ELSE st.notified,
        resynced |-> st.resynced]

\* mutation: no early return for a sound that has no entry
StopAdaptiveSound_noReturn(st, soundId, skipUpdate) == StopEntry(st, soundId, skipUpdate)

StopAdaptiveSound(st, soundId, skipUpdate) ==
    IF soundId \notin DOMAIN st.ps
    THEN st
    ELSE StopEntry(st, soundId, skipUpdate)

RECURSIVE StopAll(_, _)
StopAll(st, ids) ==
    IF ids = {}
    THEN st
    ELSE LET id == CHOOSE x \in ids : TRUE
         IN StopAll(StopAdaptiveSound(st, id, FALSE), ids \ {id})

\* mutation: no loading guard
AlreadyLoading_never(s) == FALSE

\* the loading guard at the top of _playAdaptiveSound
AlreadyLoading(s) == s \in loadingSounds

\* mutation: exclusivity reaches across playlists and modes
SoundsToStop_all(ps, s) == (DOMAIN ps) \ {s}

\* mutation: exclusivity is not enforced
SoundsToStop_none(ps, s) == {}

\* the other entries of the same playlist, collected unless the mode is simultaneous
SoundsToStop(ps, s) ==
    IF mode[Parent(s)] # "simultaneous"
    THEN {o \in DOMAIN ps : Parent(o) = Parent(s) /\ o # s}
    ELSE {}

MissingAdaptiveTracks(s) == "mid" \notin paths[s] /\ "low" \notin paths[s]

QueueRoom == \A s \in Sounds : Len(updates[s]) < MaxQueue

Commit(st) ==
    /\ playingSounds' = st.ps
    /\ driftMonitorInterval' = st.dmi
    /\ updates' = st.upd
    /\ orphans' = st.orph

Op(name, s, outcome, st) ==
    [op |-> name, sound |-> s, outcome |-> outcome,
     notified |-> st.notified, resynced |-> st.resynced]

\* _playAdaptiveSound up to `await Promise.all(promises)`
Start(s) ==
    /\ s \in exists
    /\ loadingCalls[s] + updatingCalls[s] < MaxInFlight
    /\ QueueRoom
    /\ IF AlreadyLoading(s)
       THEN /\ lastOp' = Op("start", s, "dropped", CurSt)
            /\ UNCHANGED <<lifeVars>>
       ELSE LET st1 == StopAll(CurSt, SoundsToStop(playingSounds, s))
            IN IF MissingAdaptiveTracks(s)
               THEN /\ Commit(st1)
                    /\ lastOp' = Op("start", s, "unconfigured", st1)
                    /\ UNCHANGED <<loadingSounds, loadingCalls, updatingCalls, docPlaying>>
               ELSE LET st2 == StopAdaptiveSound(st1, s, FALSE)
                    IN /\ Commit(st2)
                       /\ loadingSounds' = loadingSounds \cup {s}
                       /\ loadingCalls' = [loadingCalls EXCEPT ![s] = @ + 1]
                       /\ lastOp' = Op("start", s, "loading", st2)
                       /\ UNCHANGED <<updatingCalls, docPlaying>>
    /\ UNCHANGED <<mixVars, policyVars, docVars, hostVars, calcVars, syncVars>>

\* the layers created and started for a sound: play({volume: 0, loop})
StartedLayers(s) == [l \in paths[s] |-> SoundPlay(NewSound, 0, 0)]

\* this.playingSounds.set(sound.id, {...}); play; _applyIntensityToSound
Register(st, s) ==
    LET lost == IF s \in DOMAIN st.ps THEN Cardinality(PlayingLayers(st.ps[s])) ELSE 0
        ps1  == [x \in (DOMAIN st.ps) \cup {s} |->
                    IF x = s THEN StartedLayers(s) ELSE st.ps[x]]
    IN [st EXCEPT !.ps = ApplyIntensityToSound(ps1, s, CurEnv),
                  !.orph = Min(MaxOrphans, st.orph + lost)]

\* the tail of _playAdaptiveSound: start the monitor if it is not running
EnsureMonitor(dmi) == IF ~dmi THEN StartDriftMonitoring(dmi) ELSE dmi

\* the loads resolve: _playAdaptiveSound from `await Promise.all` to
\* `await sound.update` (owner) or to its end (not owner)
LoadResolve(s) ==
    /\ loadingCalls[s] > 0
    /\ QueueRoom
    /\ LET st1 == Register(CurSt, s)
       IN IF isOwner
          THEN /\ Commit([st1 EXCEPT !.upd = [st1.upd EXCEPT ![s] = Append(@, TRUE)]])
               /\ loadingCalls' = [loadingCalls EXCEPT ![s] = @ - 1]
               /\ updatingCalls' = [updatingCalls EXCEPT ![s] = @ + 1]
               /\ lastOp' = Op("loaded", s, "updating", [st1 EXCEPT !.notified = {s}])
               /\ UNCHANGED <<loadingSounds, docPlaying>>
          ELSE /\ Commit([st1 EXCEPT !.dmi = EnsureMonitor(st1.dmi)])
               /\ loadingCalls' = [loadingCalls EXCEPT ![s] = @ - 1]
               /\ loadingSounds' = loadingSounds \ {s}
               /\ lastOp' = Op("loaded", s, "done", st1)
               /\ UNCHANGED <<updatingCalls, docPlaying>>
    /\ UNCHANGED <<mixVars, policyVars, docVars, hostVars, calcVars, syncVars>>

\* a load rejects: catch, finally
LoadFail(s) ==
    /\ loadingCalls[s] > 0
    /\ loadingCalls' = [loadingCalls EXCEPT ![s] = @ - 1]
    /\ loadingSounds' = loadingSounds \ {s}
    /\ lastOp' = Op("loadFailed", s, "done", CurSt)
    /\ UNCHANGED <<playingSounds, driftMonitorInterval, updatingCalls, updates,
                   docPlaying, orphans>>
    /\ UNCHANGED <<mixVars, policyVars, docVars, hostVars, calcVars, syncVars>>

\* the oldest internal update of a sound is applied to the document; a
\* playing:true update resumes the _playAdaptiveSound call that awaits it
UpdateApplied(s) ==
    /\ Len(updates[s]) > 0
    /\ LET u == Head(updates[s])
       IN /\ updates' = [updates EXCEPT ![s] = Tail(@)]
          /\ docPlaying' = [docPlaying EXCEPT ![s] = u]
          /\ IF u
             THEN /\ updatingCalls' = [updatingCalls EXCEPT ![s] = @ - 1]
                  /\ driftMonitorInterval' = EnsureMonitor(driftMonitorInterval)
                  /\ loadingSounds' = loadingSounds \ {s}
                  /\ lastOp' = Op("updated", s, "done", CurSt)
             ELSE /\ lastOp' = Op("updated", s, "stopAck", CurSt)
                  /\ UNCHANGED <<updatingCalls, driftMonitorInterval, loadingSounds>>
    /\ UNCHANGED <<playingSounds, loadingCalls, orphans>>
    /\ UNCHANGED <<mixVars, policyVars, docVars, hostVars, calcVars, syncVars>>

\* the oldest internal update of a sound is rejected: the awaiting
\* _playAdaptiveSound call goes through catch and finally; a rejected
\* playing:false update is only logged
UpdateFailed(s) ==
    /\ Len(updates[s]) > 0
    /\ LET u == Head(updates[s])
       IN /\ updates' = [updates EXCEPT ![s] = Tail(@)]
          /\ IF u
             THEN /\ updatingCalls' = [updatingCalls EXCEPT ![s] = @ - 1]
                  /\ loadingSounds' = loadingSounds \ {s}
                  /\ lastOp' = Op("updateFailed", s, "done", CurSt)
             ELSE /\ lastOp' = Op("updateFailed", s, "stopAck", CurSt)
                  /\ UNCHANGED <<updatingCalls, loadingSounds>>
    /\ UNCHANGED <<playingSounds, driftMonitorInterval, loadingCalls, docPlaying, orphans>>
    /\ UNCHANGED <<mixVars, policyVars, docVars, hostVars, calcVars, syncVars>>

\* _stopAdaptiveSound(sound.id) requested through the update hooks
StopRequest(s) ==
    /\ s \in exists
    /\ QueueRoom
    /\ LET st1 == StopAdaptiveSound(CurSt, s, FALSE)
       IN /\ Commit(st1)
          /\ lastOp' = Op("stop", s,
                          IF s \in DOMAIN playingSounds THEN "stopped" ELSE "noop", st1)
    /\ UNCHANGED <<loadingSounds, loadingCalls, updatingCalls, docPlaying>>
    /\ UNCHANGED <<mixVars, policyVars, docVars, hostVars, calcVars, syncVars>>

\* the deletePlaylistSound hook: the document is gone and
\* _stopAdaptiveSound(sound.id, true) runs
DeleteSound(s) ==
    /\ s \in exists
    /\ exists' = exists \ {s}
    /\ LET st1 == StopAdaptiveSound(CurSt, s, TRUE)
       IN /\ Commit(st1)
          /\ lastOp' = Op("deleted", s,
                          IF s \in DOMAIN playingSounds THEN "stopped" ELSE "noop", st1)
    /\ UNCHANGED <<loadingSounds, loadingCalls, updatingCalls, docPlaying>>
    /\ UNCHANGED <<docVolume, docRepeat, paths, mode, isOwner>>
    /\ UNCHANGED <<mixVars, policyVars, hostVars, calcVars, syncVars>>

\* mutation: the loop over the active set ends after its first match
PlaylistEntries_one(ps, p) ==
    LET all == {s \in DOMAIN ps : Parent(s) = p}
    IN IF all = {} THEN {} ELSE {CHOOSE s \in all : TRUE}

\* the entries of playingSounds whose sound has the deleted playlist as parent
PlaylistEntries(ps, p) == {s \in DOMAIN ps : Parent(s) = p}

\* _stopAdaptiveSound(soundId, true) for each of them, in the map's order
RECURSIVE StopPlaylist(_, _)
StopPlaylist(st, ids) ==
    IF ids = {}
    THEN st
    ELSE LET id == CHOOSE x \in ids : TRUE
         IN StopPlaylist(StopAdaptiveSound(st, id, TRUE), ids \ {id})

\* the deletePlaylist hook: the playlist and its sound documents are gone
DeletePlaylist(p) ==
    /\ \E s \in exists : Parent(s) = p
    /\ exists' = {s \in exists : Parent(s) # p}
    /\ LET ids == PlaylistEntries(playingSounds, p)
           st1 == StopPlaylist(CurSt, ids)
       IN /\ Commit(st1)
          /\ lastOp' = Op("deletePlaylist", p,
                          IF ids # {} THEN "stopped" ELSE "noop", st1)
    /\ UNCHANGED <<loadingSounds, loadingCalls, updatingCalls, docPlaying>>
    /\ UNCHANGED <<docVolume, docRepeat, paths, mode, isOwner>>
    /\ UNCHANGED <<mixVars, policyVars, hostVars, calcVars, syncVars>>

---------------------------------------------------------------------------
(* Drift Monitor *)

\* const primarySound = lowSound || midSound || highSound
Primary(entry) ==
    IF "low" \in DOMAIN entry THEN "low"
    ELSE IF "mid" \in DOMAIN entry THEN "mid"
    ELSE "high"

\* mutation: the loop flag is not consulted
AtEndOfTrack_ignoreLoop(entry, soundId) ==
    /\ TrackLen > 0
    /\ entry[Primary(entry)].currentTime >= TrackLen - EndWindow

\* end-of-track test of the monitor on the primary layer
AtEndOfTrack(entry, soundId) ==
    /\ ~docRepeat[soundId]
    /\ TrackLen > 0
    /\ entry[Primary(entry)].currentTime >= TrackLen - EndWindow

\* mutation: the threshold itself already counts as drift
DriftExceeded_atThreshold(drift) == drift >= DriftThreshold

DriftExceeded(drift) == drift > DriftThreshold

\* checkDrift(secondary, label)
CheckDrift(st, soundId, l) ==
    LET entry == st.ps[soundId]
        prim  == entry[Primary(entry)]
    IN IF l \notin DOMAIN entry \/ ~entry[l].playing
       THEN st
       ELSE IF DriftExceeded(Abs(entry[l].currentTime - prim.currentTime))
       THEN LET restarted == SoundPlay(SoundStop(entry[l]), 0, prim.currentTime)
                ps1 == [st.ps EXCEPT ![soundId] = [entry EXCEPT ![l] = restarted]]
            IN [st EXCEPT !.ps = ApplyIntensityToSound(ps1, soundId, CurEnv),
                          !.resynced = @ \cup {<<soundId, l>>}]
       ELSE st

\* an access to this layer's Sound object throws
Throws(soundId, l) == <<soundId, l>> \in broken

BrokenLayers(entry, soundId) == {l \in DOMAIN entry : Throws(soundId, l)}

\* the secondaries in the order the monitor checks them; the first one whose
\* handle throws ends the inspection of the entry
CheckSecondaries(st, soundId) ==
    LET entry == st.ps[soundId]
        prim  == Primary(entry)
        thrown(l) == l # prim /\ l \in DOMAIN entry /\ Throws(soundId, l)
        st1  == IF prim # "high" /\ ~thrown("high")
                THEN CheckDrift(st, soundId, "high") ELSE st
        st2  == IF thrown("high") THEN st1
                ELSE IF prim # "mid" /\ ~thrown("mid")
                THEN CheckDrift(st1, soundId, "mid") ELSE st1
    IN IF thrown("high") \/ thrown("mid") THEN st2
       ELSE IF prim # "low" /\ ~thrown("low")
       THEN CheckDrift(st2, soundId, "low") ELSE st2

\* _stopAdaptiveSound called by the monitor on an entry with an invalid
\* layer: Low, Mid, High are stopped in this order up to the layer that
\* throws, and the entry stays registered
StopThrown(st, soundId) ==
    LET entry == st.ps[soundId]
        rank(l) == IF l = "low" THEN 1 ELSE IF l = "mid" THEN 2 ELSE 3
        bad   == BrokenLayers(entry, soundId)
        first == CHOOSE l \in bad : \A o \in bad : rank(l) <= rank(o)
    IN [st EXCEPT !.ps = [@ EXCEPT ![soundId] =
           [l \in DOMAIN entry |-> IF rank(l) < rank(first)
                                   THEN SoundStop(entry[l])
                                   ELSE entry[l]]]]

\* the inspection of this entry ends in the catch block
EntryThrows(st, soundId) ==
    LET entry == st.ps[soundId]
        prim  == Primary(entry)
    IN \/ Throws(soundId, prim)
       \/ entry[prim].playing /\ BrokenLayers(entry, soundId) # {}

\* the body of the monitor's loop for one entry
MonitorEntry(st, soundId) ==
    LET entry == st.ps[soundId]
        prim  == Primary(entry)
    IN IF Throws(soundId, prim)
       THEN st
       ELSE IF ~entry[prim].playing
       THEN st
       ELSE IF AtEndOfTrack(entry, soundId)
       THEN IF BrokenLayers(entry, soundId) # {}
            THEN StopThrown(st, soundId)
            ELSE StopAdaptiveSound(st, soundId, FALSE)
       ELSE CheckSecondaries(st, soundId)

\* mutation: an exception in one entry ends the whole tick
EntriesAfter_abort(st, id, ids) == IF EntryThrows(st, id) THEN {} ELSE ids \ {id}

\* the entries the loop still visits after entry id: the try/catch is
\* inside the loop body
EntriesAfter(st, id, ids) == ids \ {id}

RECURSIVE MonitorAll(_, _)
MonitorAll(st, ids) ==
    IF ids = {}
    THEN st
    ELSE LET id == CHOOSE x \in ids : TRUE
         IN MonitorAll(MonitorEntry(st, id), EntriesAfter(st, id, ids))

\* one firing of the interval set by _startDriftMonitoring
MonitorTick ==
    /\ driftMonitorInterval
    /\ QueueRoom
    /\ IF DOMAIN playingSounds = {}
       THEN /\ driftMonitorInterval' = StopDriftMonitoring(driftMonitorInterval)
            /\ lastOp' = Op("tick", "-", "idle", CurSt)
            /\ UNCHANGED <<playingSounds, updates, orphans>>
       ELSE LET st1 == MonitorAll(CurSt, DOMAIN playingSounds)
            IN /\ Commit(st1)
               /\ lastOp' = Op("tick", "-", "checked", st1)
    /\ UNCHANGED <<loadingSounds, loadingCalls, updatingCalls, docPlaying>>
    /\ UNCHANGED <<mixVars, policyVars, docVars, hostVars, calcVars, syncVars>>

\* the clock of one playing layer advances by one unit; at the end of the
\* track a looping layer wraps and a non-looping one ends
AdvanceClock(s, l) ==
    /\ s \in DOMAIN playingSounds
    /\ l \in DOMAIN playingSounds[s]
    /\ playingSounds[s][l].playing
    /\ LET snd == playingSounds[s][l]
           nxt == IF snd.currentTime < TrackLen
                  THEN [snd EXCEPT !.currentTime = @ + 1]
                  ELSE IF docRepeat[s]
                  THEN [snd EXCEPT !.currentTime = 0]
                  ELSE [snd EXCEPT !.playing = FALSE]
       IN playingSounds' = [playingSounds EXCEPT ![s] = [@ EXCEPT ![l] = nxt]]
    /\ lastOp' = Op("clock", s, l, CurSt)
    /\ UNCHANGED <<loadingSounds, driftMonitorInterval, loadingCalls, updatingCalls,
                   updates, docPlaying, orphans>>
    /\ UNCHANGED <<mixVars, policyVars, docVars, hostVars, calcVars, syncVars>>

\* the Sound object of one layer of a registered entry becomes invalid:
\* from now on every access to it throws
BreakHandle(s, l) ==
    /\ s \in DOMAIN playingSounds
    /\ l \in DOMAIN playingSounds[s]
    /\ Cardinality(broken) < MaxBroken
    /\ ~Throws(s, l)
    /\ broken' = broken \cup {<<s, l>>}
    /\ lastOp' = Op("break", s, l, CurSt)
    /\ UNCHANGED <<nativeSync, intervals>>
    /\ UNCHANGED <<lifeVars, mixVars, policyVars, docVars, calcVars, syncVars>>

---------------------------------------------------------------------------
(* Intensity / master / custom-mix setters *)

Clients == {"local", "peer"}

\* a change of a world setting, or a combat event, on its way to a client
Msg(key, arg, value) == [key |-> key, arg |-> arg, value |-> value]

\* the host hands a change to every connected client, the writer included
Broadcast(box, msg) ==
    [c \in Clients |-> IF c = "local" \/ peer.connected
                       THEN Append(box[c], msg)
                       ELSE box[c]]

InboxRoom == \A c \in Clients : Len(inbox[c]) < MaxInbox

\* mutation: every call made while a restore point is held counts as manual
MarksOverride_anyCall(fromSync, pre) == pre # NoSnapshot

\* a manual change during combat: not from sync or fade, restore point held
MarksOverride(fromSync, pre) == ~fromSync /\ pre # NoSnapshot

\* setGlobalIntensity(value, fromSync), run with the mix values env0, the
\* settings set0 and the undelivered changes box0 its caller has already stored
GlobalIntensityEffect(value, fromSync, env0, set0, box0) ==
    LET i == Clamp01(value, One)
    IN /\ intensity' = i
       /\ userOverrideDuringCombat' =
              IF MarksOverride(fromSync, preCombatIntensity)
              THEN TRUE
              ELSE userOverrideDuringCombat
       /\ playingSounds' = ApplyToAll(playingSounds, DOMAIN playingSounds,
                                      [env0 EXCEPT !.intensity = i])
       /\ settings' = IF ~fromSync /\ isGM
                      THEN [set0 EXCEPT !.currentIntensity = RoundPercent(i)]
                      ELSE set0
       /\ inbox' = IF ~fromSync /\ isGM
                   THEN Broadcast(box0, Msg("currentIntensity", "-", RoundPercent(i)))
                   ELSE box0

SetGlobalIntensity(value, fromSync) ==
    /\ InboxRoom
    /\ GlobalIntensityEffect(value, fromSync, CurEnv, settings, inbox)
    /\ lastOp' = Op("setGlobalIntensity", "-", IF fromSync THEN "sync" ELSE "user", CurSt)
    /\ UNCHANGED <<masterVolume, customMixEnabled, customVolume>>
    /\ UNCHANGED <<loadingSounds, driftMonitorInterval, loadingCalls, updatingCalls,
                   updates, docPlaying, orphans>>
    /\ UNCHANGED <<preCombatIntensity, isGM, docVars, hostVars, calcVars, fadeInterval, combats, peer>>

\* setMasterVolume(volume): the setting is written on every client
SetMasterVolume(volume) ==
    LET m == Clamp01(volume, Percent)
    IN /\ InboxRoom
       /\ masterVolume' = m
       /\ GlobalIntensityEffect(intensity, FALSE,
                                [CurEnv EXCEPT !.masterVolume = m],
                                [settings EXCEPT !.masterVolume = m], inbox)
       /\ lastOp' = Op("setMasterVolume", "-", "user", CurSt)
       /\ UNCHANGED <<customMixEnabled, customVolume>>
       /\ UNCHANGED <<loadingSounds, driftMonitorInterval, loadingCalls, updatingCalls,
                      updates, docPlaying, orphans>>
       /\ UNCHANGED <<preCombatIntensity, isGM, docVars, hostVars, calcVars, fadeInterval, combats, peer>>

\* setCustomMixEnabled(enabled, fromSync), with the undelivered changes box0
CustomMixEnabledEffect(enabled, fromSync, box0) ==
    /\ customMixEnabled' = enabled
    /\ GlobalIntensityEffect(intensity, TRUE,
                             [CurEnv EXCEPT !.customMixEnabled = enabled],
                             IF ~fromSync /\ isGM
                             THEN [settings EXCEPT !.customMixEnabled = enabled]
                             ELSE settings,
                             IF ~fromSync /\ isGM
                             THEN Broadcast(box0, Msg("customMixEnabled", "-",
                                                      IF enabled THEN 1 ELSE 0))
                             ELSE box0)

SetCustomMixEnabled(enabled, fromSync) ==
    /\ InboxRoom
    /\ CustomMixEnabledEffect(enabled, fromSync, inbox)
    /\ lastOp' = Op("setCustomMixEnabled", "-", IF fromSync THEN "sync" ELSE "user", CurSt)
    /\ UNCHANGED <<masterVolume, customVolume>>
    /\ UNCHANGED <<loadingSounds, driftMonitorInterval, loadingCalls, updatingCalls,
                   updates, docPlaying, orphans>>
    /\ UNCHANGED <<preCombatIntensity, isGM, docVars, hostVars, calcVars, fadeInterval, combats, peer>>

\* setCustomVolume(type, volume, fromSync), with the undelivered changes
\* box0; the mix is re-applied only while custom mix is enabled
CustomVolumeEffect(type, volume, fromSync, box0) ==
    LET v    == Clamp01(volume, One)
        cv   == [customVolume EXCEPT ![type] = v]
        set1 == IF ~fromSync /\ isGM
                THEN [settings EXCEPT !.customVolume = [@ EXCEPT ![type] = v]]
                ELSE settings
        box1 == IF ~fromSync /\ isGM
                THEN Broadcast(box0, Msg("customVolume", type, v))
                ELSE box0
    IN /\ customVolume' = cv
       /\ IF customMixEnabled
          THEN GlobalIntensityEffect(intensity, TRUE,
                                     [CurEnv EXCEPT !.customVolume = cv], set1, box1)
          ELSE /\ settings' = set1
               /\ inbox' = box1
               /\ UNCHANGED <<intensity, userOverrideDuringCombat, playingSounds>>

SetCustomVolume(type, volume, fromSync) ==
    /\ InboxRoom
    /\ CustomVolumeEffect(type, volume, fromSync, inbox)
    /\ lastOp' = Op("setCustomVolume", "-", IF fromSync THEN "sync" ELSE "user", CurSt)
    /\ UNCHANGED <<masterVolume, customMixEnabled>>
    /\ UNCHANGED <<loadingSounds, driftMonitorInterval, loadingCalls, updatingCalls,
                   updates, docPlaying, orphans>>
    /\ UNCHANGED <<preCombatIntensity, isGM, docVars, hostVars, calcVars, fadeInterval, combats, peer>>

\* the sound document's volume changes; updatePlaylistSound runs
\* _handleSoundUpdate, which re-applies the mix when the sound is registered
SoundVolumeChanged(s, v) ==
    /\ s \in exists
    /\ v # docVolume[s]
    /\ docVolume' = [docVolume EXCEPT ![s] = v]
    /\ playingSounds' =
           IF s \in DOMAIN playingSounds
           THEN ApplyIntensityToSound(playingSounds, s,
                    [CurEnv EXCEPT !.docVolume = [docVolume EXCEPT ![s] = v]])
           ELSE playingSounds
    /\ lastOp' = Op("soundVolume", s, "done", CurSt)
    /\ UNCHANGED <<loadingSounds, driftMonitorInterval, loadingCalls, updatingCalls,
                   updates, docPlaying, orphans>>
    /\ UNCHANGED <<mixVars, policyVars, docRepeat, paths, mode, exists, isOwner, hostVars, calcVars, syncVars>>

\* a collaborator calls calculateMix(x) directly
CalculateMixCall ==
    /\ ~mixResult.done
    /\ mixResult' = [done |-> TRUE, mix |-> calculateMix(mixArg)]
    /\ lastOp' = Op("calculateMix", "-", "done", CurSt)
    /\ UNCHANGED <<lifeVars, mixVars, policyVars, docVars, hostVars, mixArg, syncVars>>

\* the collaborator picks the next argument
NextMixArg(x) ==
    /\ mixResult.done
    /\ mixArg' = x
    /\ mixResult' = [done |-> FALSE, mix |-> [low |-> 0, mid |-> 0, high |-> 0]]
    /\ lastOp' = Op("mixArg", "-", "done", CurSt)
    /\ UNCHANGED <<lifeVars, mixVars, policyVars, docVars, hostVars, syncVars>>

---------------------------------------------------------------------------
(* Intensity/Fade Controller: fadeTo and its timer *)

\* mutation: the first half of the ease curve is used for every progress
EasedNum_quadratic(e, d) ==
    LET p == Min(e, d)
    IN 2 * p * p

\* progress = Math.min(elapsed / duration, 1.0) through the ease-in-out
\* curve; the result is eased * duration^2
EasedNum(e, d) ==
    LET p == Min(e, d)
    IN IF 2 * p < d
       THEN 2 * p * p
       ELSE d * d - 2 * (d - p) * (d - p)

\* newIntensity = startIntensity + delta * eased, at elapsed time e
FadeValue(f, e) ==
    IF f.start = NaN \/ f.target = NaN
    THEN NaN
    ELSE f.start + ((f.target - f.start) * EasedNum(e, f.duration))
                       \div (f.duration * f.duration)

\* mutation: fadeTo leaves the previous interval scheduled
ClearInterval_leak(ivs, f) == ivs

\* clearInterval(this.fadeInterval): the interval is taken off the host's
\* timer table and fires no more; clearing null clears nothing
ClearInterval(ivs, f) == ivs \ {f}

\* the timer table after fadeTo: the previous interval cleared, the new one set
Rescheduled(ivs, old, new) == ClearInterval(ivs, old) \cup {new}

\* fadeTo up to setInterval: the previous interval is cleared, the new one
\* captures startIntensity, delta and startTime
NewFade(old, start, target, duration) ==
    [active |-> TRUE, start |-> start, target |-> target, elapsed |-> 0,
     duration |-> duration]

\* a collaborator calls fadeTo(targetIntensity, duration)
FadeTo(target, duration) ==
    /\ duration > 0
    /\ fadeInterval' = NewFade(fadeInterval, intensity, target, duration)
    /\ intervals' = Rescheduled(intervals, fadeInterval, fadeInterval')
    /\ lastOp' = Op("fadeTo", "-", "started", CurSt)
    /\ UNCHANGED <<lifeVars, mixVars, policyVars, docVars, broken, nativeSync, calcVars,
                   combats, inbox, peer>>

\* mutation: every tick persists the intensity
FadePersists_always(complete) == isGM

\* the final sync to the world settings at the end of a fade
FadePersists(complete) == complete /\ isGM

\* one firing of the interval set by fadeTo, dt clock units after the
\* previous one
FadeTick(dt) ==
    /\ InboxRoom
    /\ \E f \in intervals :
       LET e        == Min(f.elapsed + dt, f.duration)
           complete == e >= f.duration
           persist  == FadePersists(complete)
           percent  == RoundPercent(f.target)
           f1       == [f EXCEPT !.elapsed = e]
           \* this.fadeInterval, and the timer table, when the callback has run
           cur      == IF fadeInterval = f THEN f1 ELSE fadeInterval
           ivs      == (intervals \ {f}) \cup {f1}
       IN /\ GlobalIntensityEffect(FadeValue(f, e), TRUE, CurEnv,
                 IF persist
                 THEN [settings EXCEPT !.currentIntensity = percent]
                 ELSE settings,
                 IF persist
                 THEN Broadcast(inbox, Msg("currentIntensity", "-", percent))
                 ELSE inbox)
          /\ fadeInterval' = IF complete THEN NoFade ELSE cur
          /\ intervals' = IF complete THEN ivs \ {cur} ELSE ivs
          /\ lastOp' = Op("fadeTick", "-", IF complete THEN "complete" ELSE "running", CurSt)
    /\ UNCHANGED <<masterVolume, customMixEnabled, customVolume>>
    /\ UNCHANGED <<loadingSounds, driftMonitorInterval, loadingCalls, updatingCalls,
                   updates, docPlaying, orphans>>
    /\ UNCHANGED <<preCombatIntensity, isGM, docVars, broken, nativeSync, calcVars, combats, peer>>

\* the onChange handlers of the world settings: the oldest undelivered change
\* of this client is applied with fromSync = true
SettingChanged ==
    /\ inbox["local"] # << >>
    /\ LET m    == Head(inbox["local"])
           box0 == [inbox EXCEPT !["local"] = Tail(@)]
       IN /\ m.key \in {"currentIntensity", "customMixEnabled", "customVolume"}
          /\ IF m.key = "currentIntensity"
             THEN /\ GlobalIntensityEffect((m.value * One) \div Percent, TRUE,
                                           CurEnv, settings, box0)
                  /\ UNCHANGED <<customMixEnabled, customVolume>>
             ELSE IF m.key = "customMixEnabled"
             THEN /\ CustomMixEnabledEffect(m.value = 1, TRUE, box0)
                  /\ UNCHANGED customVolume
             ELSE /\ CustomVolumeEffect(m.arg, m.value, TRUE, box0)
                  /\ UNCHANGED customMixEnabled
          /\ lastOp' = Op("settingChanged", "-", m.key, CurSt)
    /\ UNCHANGED masterVolume
    /\ UNCHANGED <<loadingSounds, driftMonitorInterval, loadingCalls, updatingCalls,
                   updates, docPlaying, orphans>>
    /\ UNCHANGED <<preCombatIntensity, isGM, docVars, hostVars, calcVars, fadeInterval, combats, peer>>

---------------------------------------------------------------------------
(* Combat Intensity Policy: the combatStart and deleteCombat hooks *)

\* mutation: every combat start stores a new restore point
Snapshot_overwrite(pre, i) == i

\* the restore point after a combat start: captured only when none is held
Snapshot(pre, i) == IF pre = NoSnapshot THEN i ELSE pre

\* game.settings.get(MODULE_ID, "combatIntensity") / 100
CombatTarget == (settings.combatIntensity * One) \div Percent

\* game.combats.filter(c => c.started && c.id !== combat.id)
OtherActiveCombats(cb, c) == {o \in Encounters : cb[o] = "started" /\ o # c}

\* mutation: a held restore point is faded back to, override or not
RestoresIntensity_always(pre, override) == pre # NoSnapshot

\* the condition under which the last combat's end fades back
RestoresIntensity(pre, override) == ~override /\ pre # NoSnapshot

\* the host calls the same hook on the other connected client, later
Notify(box, msg) ==
    [box EXCEPT !["peer"] = IF peer.connected THEN Append(@, msg) ELSE @]

\* the combatStart hook for encounter c
CombatStart(c) ==
    /\ combats[c] = "created"
    /\ InboxRoom
    /\ inbox' = Notify(inbox, Msg("combatStart", c, 0))
    /\ combats' = [combats EXCEPT ![c] = "started"]
    /\ IF ~settings.autoSetCombatIntensity
       THEN UNCHANGED <<preCombatIntensity, userOverrideDuringCombat, fadeInterval, intervals>>
       ELSE /\ preCombatIntensity' = Snapshot(preCombatIntensity, intensity)
            /\ userOverrideDuringCombat' =
                   IF preCombatIntensity = NoSnapshot THEN FALSE ELSE userOverrideDuringCombat
            /\ fadeInterval' = NewFade(fadeInterval, intensity, CombatTarget, FadeSteps)
            /\ intervals' = Rescheduled(intervals, fadeInterval, fadeInterval')
    /\ lastOp' = Op("combatStart", c,
                    IF settings.autoSetCombatIntensity THEN "fading" ELSE "disabled", CurSt)
    /\ UNCHANGED <<lifeVars, mixVars, settings, isGM, docVars, broken, nativeSync, calcVars, peer>>

\* the deleteCombat hook for encounter c, started or not
DeleteCombat(c) ==
    /\ combats[c] \in {"created", "started"}
    /\ InboxRoom
    /\ inbox' = Notify(inbox, Msg("deleteCombat", c, 0))
    /\ combats' = [combats EXCEPT ![c] = IF @ = "started" THEN "ended" ELSE "deleted"]
    /\ IF ~settings.autoSetCombatIntensity
       THEN /\ lastOp' = Op("deleteCombat", c, "disabled", CurSt)
            /\ UNCHANGED <<preCombatIntensity, userOverrideDuringCombat, fadeInterval, intervals>>
       ELSE IF OtherActiveCombats(combats, c) # {}
       THEN /\ lastOp' = Op("deleteCombat", c, "othersActive", CurSt)
            /\ UNCHANGED <<preCombatIntensity, userOverrideDuringCombat, fadeInterval, intervals>>
       ELSE /\ IF RestoresIntensity(preCombatIntensity, userOverrideDuringCombat)
               THEN /\ fadeInterval' = NewFade(fadeInterval, intensity,
                                               preCombatIntensity, FadeSteps)
                    /\ intervals' = Rescheduled(intervals, fadeInterval, fadeInterval')
                    /\ lastOp' = Op("deleteCombat", c, "restoring", CurSt)
               ELSE /\ lastOp' = Op("deleteCombat", c, "kept", CurSt)
                    /\ UNCHANGED <<fadeInterval, intervals>>
            /\ preCombatIntensity' = NoSnapshot
            /\ userOverrideDuringCombat' = FALSE
    /\ UNCHANGED <<lifeVars, mixVars, settings, isGM, docVars, broken, nativeSync, calcVars, peer>>

\* the world setting autoSetCombatIntensity is changed in the settings
\* form; it has no onChange handler
SetAutoCombatIntensity(enabled) ==
    /\ settings.autoSetCombatIntensity # enabled
    /\ settings' = [settings EXCEPT !.autoSetCombatIntensity = enabled]
    /\ lastOp' = Op("autoSetCombatIntensity", "-", IF enabled THEN "on" ELSE "off", CurSt)
    /\ UNCHANGED <<preCombatIntensity, userOverrideDuringCombat, isGM>>
    /\ UNCHANGED <<lifeVars, mixVars, docVars, hostVars, calcVars, syncVars>>

---------------------------------------------------------------------------
(* The same engine on a second client that is not the GM and plays nothing *)

\* setGlobalIntensity(value, true) on the second client
PeerSetIntensity(p, value) == [p EXCEPT !.intensity = Clamp01(value, One)]

\* the combatStart hook on the second client
PeerCombatStart(p, c) ==
    LET p1 == [p EXCEPT !.combats = [@ EXCEPT ![c] = "started"]]
    IN IF ~settings.autoSetCombatIntensity
       THEN p1
       ELSE [p1 EXCEPT
               !.preCombatIntensity = Snapshot(p.preCombatIntensity, p.intensity),
               !.userOverrideDuringCombat =
                   IF p.preCombatIntensity = NoSnapshot THEN FALSE ELSE @,
               !.fadeInterval = NewFade(p.fadeInterval, p.intensity, CombatTarget, FadeSteps)]

\* the deleteCombat hook on the second client
PeerDeleteCombat(p, c) ==
    LET p1 == [p EXCEPT !.combats =
                  [@ EXCEPT ![c] = IF @ = "started" THEN "ended" ELSE "deleted"]]
    IN IF ~settings.autoSetCombatIntensity
       THEN p1
       ELSE IF OtherActiveCombats(p.combats, c) # {}
       THEN p1
       ELSE [p1 EXCEPT
               !.fadeInterval =
                   IF RestoresIntensity(p.preCombatIntensity, p.userOverrideDuringCombat)
                   THEN NewFade(p.fadeInterval, p.intensity, p.preCombatIntensity, FadeSteps)
                   ELSE @,
               !.preCombatIntensity = NoSnapshot,
               !.userOverrideDuringCombat = FALSE]

\* the oldest undelivered change or combat event reaches the second client
PeerDeliver ==
    /\ peer.connected
    /\ inbox["peer"] # << >>
    /\ LET m == Head(inbox["peer"])
       IN /\ m.key \in {"currentIntensity", "combatStart", "deleteCombat"}
          /\ peer' = IF m.key = "currentIntensity"
                     THEN PeerSetIntensity(peer, (m.value * One) \div Percent)
                     ELSE IF m.key = "combatStart"
                     THEN PeerCombatStart(peer, m.arg)
                     ELSE PeerDeleteCombat(peer, m.arg)
          /\ lastOp' = Op("peerDeliver", m.arg, m.key, CurSt)
    /\ inbox' = [inbox EXCEPT !["peer"] = Tail(@)]
    /\ UNCHANGED <<lifeVars, mixVars, policyVars, docVars, hostVars, calcVars, fadeInterval, combats>>

\* one firing of the fade interval of the second client; it is not the GM
\* and persists nothing
PeerFadeTick(dt) ==
    /\ peer.connected
    /\ peer.fadeInterval.active
    /\ LET f        == peer.fadeInterval
           e        == Min(f.elapsed + dt, f.duration)
           complete == e >= f.duration
       IN /\ peer' = [PeerSetIntensity(peer, FadeValue(f, e)) EXCEPT
                        !.fadeInterval = IF complete THEN NoFade ELSE [f EXCEPT !.elapsed = e]]
          /\ lastOp' = Op("peerFadeTick", "-", IF complete THEN "complete" ELSE "running", CurSt)
    /\ UNCHANGED <<lifeVars, mixVars, policyVars, docVars, hostVars, calcVars, fadeInterval, combats, inbox>>

---------------------------------------------------------------------------
(* The patch of PlaylistSound.prototype.sync *)

\* this.parent?.getFlag(MODULE_ID, "isAdaptive"): no parent, not flagged, flagged
SyncFlags == {"missing", "unflagged", "adaptive"}

\* the getFlag call that throws, if any
SyncFaults == {"none", "flag", "mid", "low"}

\* the try block ends in the catch: the parent's getFlag is called only when
\* there is a parent, the sound's own getFlag for both paths
SyncThrows(flag, fault) ==
    \/ fault = "flag" /\ flag # "missing"
    \/ fault \in {"mid", "low"}

\* if (isAdaptive && (midPath || lowPath)) return
BlocksNative(flag, mid, low) == flag = "adaptive" /\ (mid \/ low)

\* mutation: the catch block returns instead of falling through
CallsOriginal_swallow(flag, mid, low, fault) ==
    ~SyncThrows(flag, fault) /\ ~BlocksNative(flag, mid, low)

\* originalSync.apply(this, arguments) is reached
CallsOriginal(flag, mid, low, fault) ==
    SyncThrows(flag, fault) \/ ~BlocksNative(flag, mid, low)

\* the host calls sync() on the document of sound s
PatchedSync(s, flag, fault) ==
    LET mid == "mid" \in paths[s]
        low == "low" \in paths[s]
        original == CallsOriginal(flag, mid, low, fault)
    IN /\ s \in exists
       /\ nativeSync' = [sound |-> s, flag |-> flag, mid |-> mid, low |-> low,
                         fault |-> fault, original |-> original]
       /\ lastOp' = Op("sync", s, IF original THEN "original" ELSE "blocked", CurSt)
       /\ UNCHANGED <<broken, intervals>>
       /\ UNCHANGED <<lifeVars, mixVars, policyVars, docVars, calcVars, syncVars>>

---------------------------------------------------------------------------
(* Initial states and specifications *)

AllLayers == {"low", "mid", "high"}

NoMix == [done |-> FALSE, mix |-> [low |-> 0, mid |-> 0, high |-> 0]]

\* the state the constructor leaves, with the default settings
InitEngine ==
    /\ playingSounds = [x \in {} |-> [l \in {} |-> NewSound]]
    /\ loadingSounds = {}
    /\ driftMonitorInterval = FALSE
    /\ intensity = (50 * One) \div Percent
    /\ masterVolume = 80
    /\ customMixEnabled = FALSE
    /\ customVolume = [l \in Layers |-> One]
    /\ preCombatIntensity = NoSnapshot
    /\ userOverrideDuringCombat = FALSE
    /\ settings = [currentIntensity |-> 50, masterVolume |-> 80,
                   customMixEnabled |-> FALSE, customVolume |-> [l \in Layers |-> One],
                   autoSetCombatIntensity |-> TRUE, combatIntensity |-> 100]
    /\ fadeInterval = NoFade
    /\ combats = NoCombats
    /\ inbox = [c \in Clients |-> << >>]
    /\ loadingCalls = [s \in Sounds |-> 0]
    /\ updatingCalls = [s \in Sounds |-> 0]
    /\ updates = [s \in Sounds |-> << >>]
    /\ docPlaying = [s \in Sounds |-> FALSE]
    /\ orphans = 0
    /\ broken = {}
    /\ nativeSync = NoSync
    /\ intervals = {}
    /\ lastOp = [op |-> "init", sound |-> "-", outcome |-> "none",
                 notified |-> {}, resynced |-> {}]

\* the documents of the world: a has three layers, b has Mid and High,
\* c (in the other playlist) has Low and High
InitWorld ==
    /\ paths = [s \in Sounds |-> IF s = "a" THEN AllLayers
                                 ELSE IF s = "b" THEN {"mid", "high"}
                                 ELSE {"low", "high"}]
    /\ docVolume = [s \in Sounds |-> BaseRes]

InitIdleCalc ==
    /\ mixArg = 0
    /\ mixResult = NoMix

\* Lifecycle: start / stop / load and update completions / monitor ticks
Init ==
    /\ InitEngine
    /\ InitWorld
    /\ InitIdleCalc
    /\ peer = NoPeer
    /\ exists = Sounds
    /\ mode \in {m \in [Playlists -> Modes] : m["P2"] = "sequential"}
    /\ docRepeat = [s \in Sounds |-> TRUE]
    /\ isOwner \in BOOLEAN
    /\ isGM = isOwner

Next ==
    \/ \E s \in Sounds : Start(s)
    \/ \E s \in Sounds : LoadResolve(s)
    \/ \E s \in Sounds : LoadFail(s)
    \/ \E s \in Sounds : UpdateApplied(s)
    \/ \E s \in Sounds : UpdateFailed(s)
    \/ \E s \in Sounds : StopRequest(s)
    \/ MonitorTick

Spec == Init /\ [][Next]_vars

---------------------------------------------------------------------------
(* Claims about the playback lifecycle, checked under Spec *)

\* C1: in a playlist whose mode is not simultaneous, at most one Track Set
\* of that playlist is registered in the active set, in every reachable state
C1_Exclusivity ==
    \A p \in Playlists :
        mode[p] # "simultaneous" =>
            Cardinality({s \in DOMAIN playingSounds : Parent(s) = p}) <= 1

\* C2: a start requested for a sound that is in the loading set changes
\* nothing and requests no update; when a load resolves, the sound has one
\* registered Track Set whose layers all play, and no other Sound object of
\* the engine is left playing
C2_LoadingGuard ==
    [][\A s \in Sounds :
        /\ (lastOp'.op = "start" /\ lastOp'.sound = s /\ s \in loadingSounds)
              => /\ UNCHANGED <<lifeVars, mixVars, policyVars, docVars>>
                 /\ lastOp'.notified = {}
        /\ (lastOp'.op = "loaded" /\ lastOp'.sound = s)
              => /\ s \in DOMAIN playingSounds'
                 /\ PlayingLayers(playingSounds'[s]) = paths[s]
                 /\ orphans' = 0]_vars

C2_Witness ==
    /\ lastOp.op = "start"
    /\ lastOp.outcome = "dropped"
    /\ loadingCalls[lastOp.sound] = 1
    /\ lastOp.sound \notin DOMAIN playingSounds

C4_StopRemoves ==
    [][\A s \in Sounds :
        /\ (lastOp'.op = "stop" /\ lastOp'.sound = s /\ s \in DOMAIN playingSounds)
              => s \notin DOMAIN playingSounds'
        /\ (s \in DOMAIN playingSounds /\ s \notin DOMAIN playingSounds')
              => /\ orphans' = orphans
                 /\ (DOMAIN playingSounds' = {} => ~driftMonitorInterval')]_vars

C4_Witness ==
    /\ lastOp.op = "stop"
    /\ lastOp.outcome = "stopped"
    /\ DOMAIN playingSounds = {}
    /\ ~driftMonitorInterval
    /\ lastOp.sound \in lastOp.notified

\* C5: a stop of a sound that has no registered Track Set changes nothing
\* and requests no update
C5_StopIdempotent ==
    [][\A s \in Sounds :
        (lastOp'.op = "stop" /\ lastOp'.sound = s /\ s \notin DOMAIN playingSounds)
        => /\ UNCHANGED <<lifeVars, mixVars, policyVars, docVars>>
           /\ lastOp'.notified = {}]_vars

C5_Witness ==
    /\ lastOp.op = "stop"
    /\ lastOp.outcome = "noop"
    /\ isOwner
    /\ docPlaying[lastOp.sound]
    /\ driftMonitorInterval

---------------------------------------------------------------------------
(* Drift: layer clocks advance independently and the monitor corrects them *)

InitDrift ==
    /\ InitEngine
    /\ InitWorld
    /\ InitIdleCalc
    /\ peer = NoPeer
    /\ exists = {"a", "b"}
    /\ mode \in {m \in [Playlists -> Modes] : m["P2"] = "sequential"}
    /\ docRepeat \in {r \in [Sounds -> BOOLEAN] : r["b"] /\ r["c"]}
    /\ isOwner = FALSE
    /\ isGM = FALSE

NextDrift ==
    \/ \E s \in Sounds : Start(s)
    \/ \E s \in Sounds : LoadResolve(s)
    \/ \E s \in Sounds : StopRequest(s)
    \/ \E s \in Sounds, l \in Layers : AdvanceClock(s, l)
    \/ MonitorTick

SpecDrift == InitDrift /\ [][NextDrift]_vars

\* C6: on a monitor tick, for a Track Set whose primary layer (first present
\* of Low, Mid, High) is playing and not at end-of-track: the Track Set stays
\* registered, the primary is untouched, every other playing layer whose
\* clock differs from the primary's by more than 0.1 s is restarted at the
\* primary's clock with its mix volume, and every other layer is untouched
C6_DriftCorrection ==
    [][lastOp'.op = "tick" =>
        \A s \in DOMAIN playingSounds :
            LET e    == playingSounds[s]
                prim == IF "low" \in DOMAIN e THEN "low"
                        ELSE IF "mid" \in DOMAIN e THEN "mid" ELSE "high"
                ended == ~docRepeat[s] /\ e[prim].currentTime >= TrackLen - EndWindow
            IN (e[prim].playing /\ ~ended) =>
                 /\ s \in DOMAIN playingSounds'
                 /\ playingSounds'[s][prim] = e[prim]
                 /\ <<s, prim>> \notin lastOp'.resynced
                 /\ \A l \in (DOMAIN e) \ {prim} :
                       IF /\ e[l].playing
                          /\ \/ e[l].currentTime - e[prim].currentTime > DriftThreshold
                             \/ e[prim].currentTime - e[l].currentTime > DriftThreshold
                       THEN /\ <<s, l>> \in lastOp'.resynced
                            /\ playingSounds'[s][l].playing
                            /\ playingSounds'[s][l].currentTime = e[prim].currentTime
                            /\ playingSounds'[s][l].volume = e[l].volume
                            /\ playingSounds'[s][l].volume =
                                   TargetVolumes(e, s, CurEnv)[l]
                       ELSE /\ <<s, l>> \notin lastOp'.resynced
                            /\ playingSounds'[s][l] = e[l]]_vars

\* a tick has resynced the High layer of a, whose Mid layer stayed within
\* the threshold
C6_Witness ==
    /\ lastOp.op = "tick"
    /\ lastOp.resynced = {<<"a", "high">>}
    /\ "a" \in DOMAIN playingSounds
    /\ playingSounds["a"]["low"].currentTime > 0
    /\ playingSounds["a"]["high"].currentTime = playingSounds["a"]["low"].currentTime
    /\ playingSounds["a"]["mid"].currentTime # playingSounds["a"]["low"].currentTime

---------------------------------------------------------------------------
(* The mix curve as a function: direct calls of calculateMix *)

MixArgs == (0 - MixRange) .. (One + MixRange)

InitMix ==
    /\ InitEngine
    /\ InitWorld
    /\ exists = Sounds
    /\ mode = [p \in Playlists |-> "sequential"]
    /\ docRepeat = [s \in Sounds |-> TRUE]
    /\ isOwner = TRUE
    /\ isGM = TRUE
    /\ peer = NoPeer
    /\ mixArg \in MixArgs
    /\ mixResult = NoMix

NextMix ==
    \/ CalculateMixCall
    \/ \E x \in MixArgs : NextMixArg(x)

SpecMix == InitMix /\ [][NextMix]_vars

\* C28: for every intensity v in [0,1], calculateMix(v) is the piecewise
\* linear interpolation over low (0,1),(0.25,0),(0.5,1),(0.75,0),(1,1), mid
\* (0,0),(0.25,1),(1,1) and high (0,0),(0.5,0),(0.75,1),(1,1): every segment
\* that contains v gives the returned value, so the two segments that meet
\* at a control point agree there
C28_ReferenceCurve ==
    LET q == One \div 4
        \* a segment from (lo, vlo) to (hi, vhi), in quarters of the range
        Seg(lo, vlo, hi, vhi) == [lo |-> lo * q, vlo |-> vlo * One,
                                  hi |-> hi * q, vhi |-> vhi * One]
        Ref == [low  |-> {Seg(0, 1, 1, 0), Seg(1, 0, 2, 1),
                          Seg(2, 1, 3, 0), Seg(3, 0, 4, 1)},
                mid  |-> {Seg(0, 0, 1, 1), Seg(1, 1, 4, 1)},
                high |-> {Seg(0, 0, 2, 0), Seg(2, 0, 3, 1), Seg(3, 1, 4, 1)}]
        \* the value on the line through the end points, when it is exact
        OnLine(s, v, y) == (y - s.vlo) * (s.hi - s.lo) = (s.vhi - s.vlo) * (v - s.lo)
    IN (mixResult.done /\ mixArg >= 0 /\ mixArg <= One) =>
           \A l \in Layers :
               /\ \E s \in Ref[l] : s.lo <= mixArg /\ mixArg <= s.hi
               /\ \A s \in Ref[l] :
                      (s.lo <= mixArg /\ mixArg <= s.hi) =>
                          OnLine(s, mixArg, mixResult.mix[l])

\* a call at the control point 0.5, where two segments of Low and of High meet
C28_Witness ==
    /\ mixResult.done
    /\ mixArg = P50
    /\ mixResult.mix = [low |-> One, mid |-> One, high |-> 0]

Audible(mix) == {l \in Layers : mix[l] > 0}

\* C7: with three layers and custom mix off, the layers with volume > 0 at
\* intensity 0, 0.25, 0.5, 0.75 and 1.0 are {Low}, {Mid}, {Low,Mid},
\* {Mid,High} and {Low,Mid,High}
C7_Stages ==
    mixResult.done =>
        /\ (4 * mixArg = 0)       => Audible(mixResult.mix) = {"low"}
        /\ (4 * mixArg = One)     => Audible(mixResult.mix) = {"mid"}
        /\ (4 * mixArg = 2 * One) => Audible(mixResult.mix) = {"low", "mid"}
        /\ (4 * mixArg = 3 * One) => Audible(mixResult.mix) = {"mid", "high"}
        /\ (4 * mixArg = 4 * One) => Audible(mixResult.mix) = {"low", "mid", "high"}

C7_Witness ==
    /\ mixResult.done
    /\ 4 * mixArg = 3 * One
    /\ Audible(mixResult.mix) = {"mid", "high"}

\* C8: every component of calculateMix's result is within [0,1], for
\* arguments inside [0,1], below 0 and above 1
C8_MixRange ==
    mixResult.done =>
        \A l \in Layers : mixResult.mix[l] >= 0 /\ mixResult.mix[l] <= One

C8_Witness ==
    /\ mixResult.done
    /\ mixArg < 0
    /\ mixResult.mix["low"] = One

---------------------------------------------------------------------------
(* Volumes: the setters, document volume changes and starts interleave *)

IntensityInputs == {0 - One \div 5, (2 * One) \div 5}
MasterInputs    == {50}
CustomInputs    == {(3 * One) \div 10, One + One \div 10}
BaseVolumes     == 0 .. BaseRes

InitVolume ==
    /\ InitEngine
    /\ InitWorld
    /\ InitIdleCalc
    /\ peer = NoPeer
    /\ exists = {"a", "b"}
    /\ mode = [p \in Playlists |-> "simultaneous"]
    /\ docRepeat = [s \in Sounds |-> TRUE]
    /\ isOwner = FALSE
    /\ isGM = FALSE

NextVolume ==
    \/ \E s \in Sounds : Start(s)
    \/ \E s \in Sounds : LoadResolve(s)
    \/ \E s \in Sounds : StopRequest(s)
    \/ \E x \in IntensityInputs, fromSync \in BOOLEAN : SetGlobalIntensity(x, fromSync)
    \/ \E x \in MasterInputs : SetMasterVolume(x)
    \/ \E en \in BOOLEAN, fromSync \in BOOLEAN : SetCustomMixEnabled(en, fromSync)
    \/ \E l \in Layers, x \in CustomInputs, fromSync \in BOOLEAN :
          SetCustomVolume(l, x, fromSync)
    \/ \E s \in Sounds, v \in BaseVolumes : SoundVolumeChanged(s, v)
    \/ AdvanceClock("b", "high")
    \/ MonitorTick

SpecVolume == InitVolume /\ [][NextVolume]_vars

\* C9: while custom mix is enabled, every layer volume of every registered
\* Track Set equals customVolume(layer) x masterVolume x base volume,
\* whatever the intensity is and however it was changed
C9_CustomMixIgnoresIntensity ==
    customMixEnabled =>
        \A s \in DOMAIN playingSounds :
            \A l \in DOMAIN playingSounds[s] :
                playingSounds[s][l].volume = customVolume[l] * masterVolume * docVolume[s]

\* custom mix is on with distinct custom volumes, both sounds are registered
\* and the intensity has just been changed
C9_Witness ==
    /\ customMixEnabled
    /\ lastOp.op = "setGlobalIntensity"
    /\ intensity = (2 * One) \div 5
    /\ DOMAIN playingSounds = {"a", "b"}
    /\ customVolume["mid"] # customVolume["high"]
    /\ masterVolume > 0
    /\ docVolume["a"] > 0

\* C10: between handlers, the volume of every present layer of every
\* registered Track Set equals (custom value if custom mix is enabled, else
\* the curve value at the current intensity) x masterVolume x base volume
C10_VolumeConsistency ==
    \A s \in DOMAIN playingSounds :
        LET present == DOMAIN playingSounds[s]
            curve == IF present = {"low", "mid", "high"}
                     THEN calculateMix(intensity)
                     ELSE IF present = {"mid", "high"}
                     THEN [low |-> 0, mid |-> One - intensity, high |-> intensity]
                     ELSE IF present = {"low", "high"}
                     THEN [low |-> One - intensity, mid |-> 0, high |-> intensity]
                     ELSE IF present = {"low", "mid"}
                     THEN [low |-> One - intensity, mid |-> intensity, high |-> 0]
                     ELSE [low |-> One, mid |-> One, high |-> One]
        IN \A l \in present :
              playingSounds[s][l].volume =
                  (IF customMixEnabled THEN customVolume[l] ELSE curve[l])
                      * masterVolume * docVolume[s]

\* a drift resync has just restarted a layer while the mix is not the
\* default one
C10_Witness ==
    /\ lastOp.op = "tick"
    /\ lastOp.resynced = {<<"b", "high">>}
    /\ ~customMixEnabled
    /\ intensity = (2 * One) \div 5
    /\ masterVolume = 50
    /\ docVolume["b"] = 1
    /\ playingSounds["b"]["high"].volume > 0
    /\ "a" \in DOMAIN playingSounds

---------------------------------------------------------------------------
(* Fades: fadeTo, its ticks, explicit intensity changes, setting changes *)

FadeTargets   == {0 - One \div 5, (4 * One) \div 5, One + One \div 2}
FadeDurations == {FadeSteps}
TickGaps      == 1 .. FadeJitter
ManualInputs  == {(3 * One) \div 10}

InitFade ==
    /\ InitEngine
    /\ InitWorld
    /\ InitIdleCalc
    /\ peer = NoPeer
    /\ exists = {"a"}
    /\ mode = [p \in Playlists |-> "simultaneous"]
    /\ docRepeat = [s \in Sounds |-> TRUE]
    /\ isOwner = FALSE
    /\ isGM \in BOOLEAN

NextFade ==
    \/ \E s \in Sounds : Start(s)
    \/ \E s \in Sounds : LoadResolve(s)
    \/ \E x \in FadeTargets, d \in FadeDurations : FadeTo(x, d)
    \/ \E dt \in TickGaps : FadeTick(dt)
    \/ \E x \in ManualInputs : SetGlobalIntensity(x, FALSE)
    \/ SettingChanged

SpecFade == InitFade /\ [][NextFade]_vars

\* the intensity is the one the running fade last stored: its start value
\* before the first tick, the eased value of the previous tick afterwards
FadeUndisturbed ==
    /\ fadeInterval.active
    /\ intensity = Clamp01(FadeValue(fadeInterval, fadeInterval.elapsed), One)

\* C11 as stated: for a fade with duration > 0 that nothing has superseded,
\* the intensity is the start value until the first tick, moves towards the
\* target from tick to tick without ever moving back, and at the tick whose
\* progress reaches 1 it equals the target and the timer is cleared
C11_Original ==
    [][/\ lastOp'.op = "fadeTo"
          => /\ intensity' = intensity
             /\ fadeInterval'.active
             /\ fadeInterval'.start = intensity
       /\ (lastOp'.op = "fadeTick" /\ FadeUndisturbed)
          => /\ fadeInterval.target >= fadeInterval.start => intensity' >= intensity
             /\ fadeInterval.target <= fadeInterval.start => intensity' <= intensity
             /\ lastOp'.outcome = "running"
                   => /\ fadeInterval'.active
                      /\ fadeInterval'.elapsed > fadeInterval.elapsed
                      /\ fadeInterval'.elapsed < fadeInterval.duration
             /\ lastOp'.outcome = "complete"
                   => /\ intensity' = fadeInterval.target
                      /\ ~fadeInterval'.active]_vars

\* C11 amended: the same, with the target clamped to [0,1] as the value the
\* completing tick stores
C11_FadeReachesTarget ==
    [][/\ lastOp'.op = "fadeTo"
          => /\ intensity' = intensity
             /\ fadeInterval'.active
             /\ fadeInterval'.start = intensity
       /\ (lastOp'.op = "fadeTick" /\ FadeUndisturbed)
          => /\ fadeInterval.target >= fadeInterval.start => intensity' >= intensity
             /\ fadeInterval.target <= fadeInterval.start => intensity' <= intensity
             /\ lastOp'.outcome = "running"
                   => /\ fadeInterval'.active
                      /\ fadeInterval'.elapsed > fadeInterval.elapsed
                      /\ fadeInterval'.elapsed < fadeInterval.duration
             /\ lastOp'.outcome = "complete"
                   => /\ intensity' = Max(0, Min(One, fadeInterval.target))
                      /\ ~fadeInterval'.active]_vars

\* a fade from 0.5 to 0.8 has completed
C11_Witness ==
    /\ lastOp.op = "fadeTick"
    /\ lastOp.outcome = "complete"
    /\ ~fadeInterval.active
    /\ intensity = (4 * One) \div 5
    /\ settings.currentIntensity = 80
    /\ "a" \in DOMAIN playingSounds

---------------------------------------------------------------------------
(* Combat policy: encounters start and end while the intensity is faded *)
(* and changed by hand                                                  *)

InitCombat ==
    /\ InitEngine
    /\ InitWorld
    /\ InitIdleCalc
    /\ peer = NoPeer
    /\ exists = {"a"}
    /\ mode = [p \in Playlists |-> "simultaneous"]
    /\ docRepeat = [s \in Sounds |-> TRUE]
    /\ isOwner = FALSE
    /\ isGM \in BOOLEAN

NextCombat ==
    \/ \E c \in Encounters : CombatStart(c)
    \/ \E c \in Encounters : DeleteCombat(c)
    \/ \E dt \in TickGaps : FadeTick(dt)
    \/ \E x \in ManualInputs : SetGlobalIntensity(x, FALSE)
    \/ SettingChanged
    \/ \E s \in Sounds : Start(s)
    \/ \E s \in Sounds : LoadResolve(s)

SpecCombat == InitCombat /\ [][NextCombat]_vars

\* C12: with the policy enabled: a combat start stores the current intensity
\* only when no restore point is held and otherwise leaves the restore point
\* as it is; the end of an encounter while another one is active changes
\* neither the fade, the intensity, the restore point nor the override flag;
\* the end of the last active encounter, without a user override, starts a
\* fade of 2 seconds from the current intensity to the restore point
C12_MultiCombatRestore ==
    [][\A c \in Encounters :
        (settings.autoSetCombatIntensity /\ lastOp'.sound = c) =>
          /\ lastOp'.op = "combatStart"
                => /\ preCombatIntensity # NoSnapshot
                         => /\ preCombatIntensity' = preCombatIntensity
                            /\ userOverrideDuringCombat' = userOverrideDuringCombat
                   /\ preCombatIntensity = NoSnapshot
                         => /\ preCombatIntensity' = intensity
                            /\ ~userOverrideDuringCombat'
          /\ (lastOp'.op = "deleteCombat" /\ \E o \in Encounters \ {c} : combats[o] = "started")
                => /\ fadeInterval' = fadeInterval
                   /\ intensity' = intensity
                   /\ preCombatIntensity' = preCombatIntensity
                   /\ userOverrideDuringCombat' = userOverrideDuringCombat
          /\ (/\ lastOp'.op = "deleteCombat" /\ combats[c] = "started"
              /\ \A o \in Encounters \ {c} : combats[o] # "started"
              /\ ~userOverrideDuringCombat /\ preCombatIntensity # NoSnapshot)
                => /\ fadeInterval'.active
                   /\ fadeInterval'.target = preCombatIntensity
                   /\ fadeInterval'.start = intensity
                   /\ fadeInterval'.elapsed = 0
                   /\ fadeInterval'.duration = FadeSteps]_vars

\* both encounters were started, one of them ended without effect, and the
\* end of the other has just started the fade back to 0.5 from full intensity
C12_Witness ==
    /\ lastOp.op = "deleteCombat"
    /\ lastOp.outcome = "restoring"
    /\ combats = [c \in Encounters |-> "ended"]
    /\ fadeInterval.active
    /\ fadeInterval.target = One \div 2
    /\ fadeInterval.start = One
    /\ intensity = One
    /\ preCombatIntensity = NoSnapshot

---------------------------------------------------------------------------
(* Lifecycle with a sound that has no Mid and no Low path *)

\* as Init, but sound b of playlist P1 has only its base (High) path
InitUnconfigured ==
    /\ InitEngine
    /\ InitIdleCalc
    /\ peer = NoPeer
    /\ paths = [s \in Sounds |-> IF s = "a" THEN AllLayers
                                 ELSE IF s = "b" THEN {"high"}
                                 ELSE {"low", "high"}]
    /\ docVolume = [s \in Sounds |-> BaseRes]
    /\ exists = Sounds
    /\ mode \in {m \in [Playlists -> Modes] : m["P2"] = "sequential"}
    /\ docRepeat = [s \in Sounds |-> TRUE]
    /\ isOwner \in BOOLEAN
    /\ isGM = isOwner

SpecUnconfigured == InitUnconfigured /\ [][Next]_vars

\* C13: a start requested for a sound that has neither a Mid nor a Low path
\* leaves the active set, every layer, the loading set, the monitor timer
\* and the document untouched and requests no update
C13_UnconfiguredStartIsNoop ==
    [][\A s \in Sounds :
        (/\ lastOp'.op = "start" /\ lastOp'.sound = s
         /\ "mid" \notin paths[s] /\ "low" \notin paths[s])
        => /\ UNCHANGED lifeVars
           /\ lastOp'.notified = {}]_vars

---------------------------------------------------------------------------
(* Failed starts and the monitor timer, checked under Spec *)

\* C14: when a start attempt ends because a load or the playing:true update
\* was rejected, the sound has no registered Track Set, so none of its
\* layers is playing
C14_FailedStartLeavesNothing ==
    [][\A s \in Sounds :
        (/\ lastOp'.op \in {"loadFailed", "updateFailed"}
         /\ lastOp'.outcome = "done"
         /\ lastOp'.sound = s)
        => s \notin DOMAIN playingSounds']_vars

\* no _playAdaptiveSound call is suspended on a load or on an update
NoStartInFlight == \A s \in Sounds : loadingCalls[s] = 0 /\ updatingCalls[s] = 0

\* C18: whenever a Track Set is registered the monitor timer is scheduled;
\* stated here for the states in which no start is suspended
C18_MonitorWhileActive ==
    (DOMAIN playingSounds # {} /\ NoStartInFlight) => driftMonitorInterval

\* C19: whenever no Track Set is registered the monitor timer is not
\* scheduled, in every state between two handler steps
C19_NoMonitorWhileIdle ==
    DOMAIN playingSounds = {} => ~driftMonitorInterval

---------------------------------------------------------------------------
(* Fades against explicit changes and persistence, checked under SpecFade *)

\* C15: an explicit (non-sync) setGlobalIntensity issued while a fade is in
\* flight clears the fade timer, and the step after an explicit change is
\* never a fade tick that moves the intensity away from the value just set
C15_ExplicitSetCancelsFade ==
    [][/\ (/\ lastOp'.op = "setGlobalIntensity" /\ lastOp'.outcome = "user"
           /\ fadeInterval.active)
          => ~fadeInterval'.active
       /\ (/\ lastOp.op = "setGlobalIntensity" /\ lastOp.outcome = "user"
           /\ lastOp'.op = "fadeTick")
          => intensity' = intensity]_vars

---------------------------------------------------------------------------
(* Persistence: every setter, direct and as the echo of a setting change *)

PersistTargets == {(4 * One) \div 5}
PersistCustom  == {(3 * One) \div 10}

NextPersist ==
    \/ \E x \in PersistTargets : FadeTo(x, FadeSteps)
    \/ \E dt \in TickGaps : FadeTick(dt)
    \/ \E x \in ManualInputs, fromSync \in BOOLEAN : SetGlobalIntensity(x, fromSync)
    \/ \E en \in BOOLEAN, fromSync \in BOOLEAN : SetCustomMixEnabled(en, fromSync)
    \/ \E x \in PersistCustom, fromSync \in BOOLEAN : SetCustomVolume("mid", x, fromSync)
    \/ SettingChanged

SpecPersist == InitFade /\ [][NextPersist]_vars

\* the shared persisted state: the world-scope settings the engine writes
SharedSettings(set) ==
    <<set.currentIntensity, set.customMixEnabled, set.customVolume>>

\* C17: a step writes shared persisted state only on a GM client and only
\* as a call with fromSync = false or as the completing tick of a fade; the
\* handler of a received setting change, a call with fromSync = true and a
\* fade tick before completion write nothing; a completing tick on a GM
\* client writes the intensity once
C17_LoopPrevention ==
    [][/\ lastOp'.op = "settingChanged"
          => /\ inbox' = [inbox EXCEPT !["local"] = Tail(@)]
             /\ settings' = settings
       /\ lastOp'.op # "settingChanged"
          => /\ (inbox' # inbox \/ SharedSettings(settings') # SharedSettings(settings))
                   => /\ isGM
                      /\ \/ lastOp'.outcome = "user"
                         \/ lastOp'.op = "fadeTick" /\ lastOp'.outcome = "complete"
             /\ lastOp'.outcome = "sync"
                   => inbox' = inbox /\ settings' = settings
             /\ (lastOp'.op = "fadeTick" /\ lastOp'.outcome = "running")
                   => inbox' = inbox /\ settings' = settings
             /\ (lastOp'.op = "fadeTick" /\ lastOp'.outcome = "complete")
                   => IF isGM
                      THEN /\ Len(inbox'["local"]) = Len(inbox["local"]) + 1
                           /\ inbox'["local"][Len(inbox'["local"])].key = "currentIntensity"
                      ELSE inbox' = inbox /\ settings' = settings]_vars

\* on a GM client a fade has completed and its single write is waiting to
\* be delivered, after an earlier received change was applied without a write
C17_Witness ==
    /\ isGM
    /\ lastOp.op = "fadeTick"
    /\ lastOp.outcome = "complete"
    /\ Len(inbox["local"]) = 1
    /\ inbox["local"][1].key = "currentIntensity"
    /\ settings.currentIntensity = 80
    /\ settings.customMixEnabled

---------------------------------------------------------------------------
(* End of track: a sound that does not loop, under a fair monitor timer *)

InitEnd ==
    /\ InitEngine
    /\ InitWorld
    /\ InitIdleCalc
    /\ peer = NoPeer
    /\ exists = {"a"}
    /\ mode = [p \in Playlists |-> "sequential"]
    /\ docRepeat = [s \in Sounds |-> s # "a"]
    /\ isOwner \in BOOLEAN
    /\ isGM = isOwner

\* the interval fires again and again for as long as it is scheduled
SpecEnd == InitEnd /\ [][NextDrift]_vars /\ WF_vars(MonitorTick)

\* the primary (Low) layer of a has played to its natural end
PrimaryEnded ==
    /\ "a" \in DOMAIN playingSounds
    /\ ~docRepeat["a"]
    /\ ~playingSounds["a"]["low"].playing
    /\ playingSounds["a"]["low"].currentTime >= TrackLen

\* C20: once the primary layer of a non-looping Track Set has played to its
\* end, the Track Set is eventually removed from the active set
C20_EndOfTrackStops == PrimaryEnded ~> ("a" \notin DOMAIN playingSounds)

---------------------------------------------------------------------------
(* Two clients: the GM's engine and the engine of one other client *)

InitSync ==
    /\ InitEngine
    /\ InitWorld
    /\ InitIdleCalc
    /\ peer = [NoPeer EXCEPT !.connected = TRUE]
    /\ exists = {}
    /\ mode = [p \in Playlists |-> "sequential"]
    /\ docRepeat = [s \in Sounds |-> TRUE]
    /\ isOwner = TRUE
    /\ isGM = TRUE

NextSync ==
    \/ CombatStart("e1")
    \/ DeleteCombat("e1")
    \/ \E dt \in TickGaps : FadeTick(dt)
    \/ \E x \in ManualInputs : SetGlobalIntensity(x, FALSE)
    \/ SettingChanged
    \/ PeerDeliver
    \/ \E dt \in TickGaps : PeerFadeTick(dt)

SpecSync == InitSync /\ [][NextSync]_vars

\* no fade is running on either client and nothing is left to deliver
Settled ==
    /\ ~fadeInterval.active
    /\ ~peer.fadeInterval.active
    /\ \A c \in Clients : inbox[c] = << >>

\* C16: once every fade has completed and every change has been delivered,
\* the intensity of each client equals the persisted shared intensity
C16_IntensityConverges ==
    Settled =>
        /\ intensity = (settings.currentIntensity * One) \div Percent
        /\ peer.intensity = (settings.currentIntensity * One) \div Percent

---------------------------------------------------------------------------
(* Faults: a layer handle becomes invalid while the monitor is running *)

InitFault ==
    /\ InitEngine
    /\ InitWorld
    /\ InitIdleCalc
    /\ peer = NoPeer
    /\ exists = {"b", "c"}
    /\ mode = [p \in Playlists |-> "simultaneous"]
    /\ docRepeat \in {r \in [Sounds -> BOOLEAN] : r["a"] /\ r["b"] # r["c"]}
    /\ isOwner = FALSE
    /\ isGM = FALSE

\* a sound that holds an invalid handle is not started again
NextFault ==
    \/ \E s \in Sounds : s \notin {x[1] : x \in broken} /\ Start(s)
    \/ \E s \in Sounds : LoadResolve(s)
    \/ \E s \in Sounds, l \in Layers : AdvanceClock(s, l)
    \/ \E s \in Sounds, l \in Layers : BreakHandle(s, l)
    \/ MonitorTick

SpecFault == InitFault /\ [][NextFault]_vars

\* C21: on a monitor tick that finds a Track Set with an invalid layer
\* handle, every other Track Set is still inspected in the same tick (one
\* at end-of-track is stopped and removed, one whose primary plays gets every
\* drifting secondary restarted at the primary's clock and every other layer
\* left alone), and the timer stays scheduled, so that later ticks run
C21_FaultContained ==
    [][(lastOp'.op = "tick" /\ broken # {}) =>
        /\ driftMonitorInterval'
        /\ lastOp'.outcome = "checked"
        /\ \A s \in DOMAIN playingSounds :
              LET e    == playingSounds[s]
                  prim == IF "low" \in DOMAIN e THEN "low"
                          ELSE IF "mid" \in DOMAIN e THEN "mid" ELSE "high"
                  ended == ~docRepeat[s] /\ e[prim].currentTime >= TrackLen - EndWindow
              IN (e[prim].playing /\ \A l \in DOMAIN e : <<s, l>> \notin broken) =>
                   IF ended
                   THEN s \notin DOMAIN playingSounds'
                   ELSE /\ s \in DOMAIN playingSounds'
                        /\ \A l \in (DOMAIN e) \ {prim} :
                              IF /\ e[l].playing
                                 /\ \/ e[l].currentTime - e[prim].currentTime > DriftThreshold
                                    \/ e[prim].currentTime - e[l].currentTime > DriftThreshold
                              THEN /\ <<s, l>> \in lastOp'.resynced
                                   /\ playingSounds'[s][l].playing
                                   /\ playingSounds'[s][l].currentTime = e[prim].currentTime
                              ELSE playingSounds'[s][l] = e[l]]_vars

\* a tick has run while a layer of b was invalid and has resynced the High
\* layer of c; the monitor is still scheduled
C21_Witness ==
    /\ lastOp.op = "tick"
    /\ \E l \in Layers : <<"b", l>> \in broken
    /\ "b" \in DOMAIN playingSounds
    /\ <<"c", "high">> \in lastOp.resynced
    /\ driftMonitorInterval

---------------------------------------------------------------------------
(* The combat policy with the auto-set-combat-intensity setting toggled *)

NextPolicy ==
    \/ NextCombat
    \/ \E en \in BOOLEAN : SetAutoCombatIntensity(en)

SpecPolicy == InitCombat /\ [][NextPolicy]_vars

\* C22: whenever no encounter is active, preCombatIntensity is empty and
\* userOverrideDuringCombat is false
C22_PolicyEmptyOutsideCombat ==
    (\A c \in Encounters : combats[c] # "started")
        => /\ preCombatIntensity = NoSnapshot
           /\ ~userOverrideDuringCombat

---------------------------------------------------------------------------
(* The patched sync, called for documents with any combination of paths *)

InitPatch ==
    /\ InitEngine
    /\ InitIdleCalc
    /\ peer = NoPeer
    /\ paths \in [Sounds -> {ls \in SUBSET Layers : "high" \in ls}]
    /\ docVolume = [s \in Sounds |-> BaseRes]
    /\ exists = Sounds
    /\ mode = [p \in Playlists |-> "sequential"]
    /\ docRepeat = [s \in Sounds |-> TRUE]
    /\ isOwner = TRUE
    /\ isGM = TRUE

NextPatch == \E s \in Sounds, flag \in SyncFlags, fault \in SyncFaults : PatchedSync(s, flag, fault)

SpecPatch == InitPatch /\ [][NextPatch]_vars

\* C23: after a call of the patched sync: if evaluating the adaptive check
\* threw, the original sync was invoked; otherwise the original was invoked
\* exactly when the container is not flagged adaptive or the sound has
\* neither a Mid nor a Low path
C23_PatchedSync ==
    nativeSync.sound # "-" =>
        LET threw == \/ nativeSync.fault = "flag" /\ nativeSync.flag # "missing"
                     \/ nativeSync.fault \in {"mid", "low"}
            adaptive == /\ nativeSync.flag = "adaptive"
                        /\ "mid" \in paths[nativeSync.sound] \/ "low" \in paths[nativeSync.sound]
        IN /\ threw => nativeSync.original
           /\ ~threw => (nativeSync.original <=> ~adaptive)

\* the check threw on a flagged container's sound with a Mid path, and the
\* original sync was invoked
C23_Witness ==
    /\ lastOp.op = "sync"
    /\ nativeSync.flag = "adaptive"
    /\ nativeSync.mid
    /\ nativeSync.fault = "low"
    /\ nativeSync.original

---------------------------------------------------------------------------
(* Clamping: the setters and fadeTo called with any number *)

\* arguments in units of 1/One: below 0, above 1, and NaN
ClampInputs == {0 - One \div 5, One + One \div 2, NaN}

\* master volume arguments in percent: below 0 and above 1
ClampMaster == {0 - 10, 150}

\* one sound with all three layers; custom mix stays off and a fade is
\* started only when none is running
InitClamp ==
    /\ InitEngine
    /\ InitWorld
    /\ InitIdleCalc
    /\ peer = NoPeer
    /\ exists = {"a"}
    /\ mode = [p \in Playlists |-> "simultaneous"]
    /\ docRepeat = [s \in Sounds |-> TRUE]
    /\ isOwner = FALSE
    /\ isGM = FALSE

NextClamp ==
    \/ \E s \in Sounds : Start(s)
    \/ \E s \in Sounds : LoadResolve(s)
    \/ \E x \in ClampInputs : SetGlobalIntensity(x, FALSE)
    \/ \E x \in ClampInputs : ~fadeInterval.active /\ FadeTo(x, FadeSteps)
    \/ \E dt \in TickGaps : FadeTick(dt)
    \/ \E x \in ClampMaster : SetMasterVolume(x)
    \/ \E x \in ClampInputs : SetCustomVolume("mid", x, FALSE)

SpecClamp == InitClamp /\ [][NextClamp]_vars

\* C24: the stored intensity, master volume and custom volumes are within
\* [0,1], and so is every layer volume of a registered Track Set whose
\* sound's own volume is within [0,1]
C24_ClampingInvariant ==
    /\ 0 <= intensity /\ intensity <= One
    /\ 0 <= masterVolume /\ masterVolume <= Percent
    /\ \A l \in Layers : 0 <= customVolume[l] /\ customVolume[l] <= One
    /\ \A s \in DOMAIN playingSounds :
          (0 <= docVolume[s] /\ docVolume[s] <= BaseRes) =>
              \A l \in DOMAIN playingSounds[s] :
                  /\ 0 <= playingSounds[s][l].volume
                  /\ playingSounds[s][l].volume <= VolOne

---------------------------------------------------------------------------
(* The lifecycle with sound documents being deleted *)

\* an update of a deleted document is rejected by the host
NextDelete ==
    \/ \E s \in Sounds : Start(s)
    \/ \E s \in Sounds : LoadResolve(s)
    \/ \E s \in Sounds : s \in exists /\ UpdateApplied(s)
    \/ \E s \in Sounds : UpdateFailed(s)
    \/ \E s \in Sounds : StopRequest(s)
    \/ \E s \in Sounds : DeleteSound(s)
    \/ MonitorTick

SpecDelete == Init /\ [][NextDelete]_vars

\* C25: when the load of a sound resolves right after a stop request or a
\* sound-deleted event for that sound was received during the load, no
\* Track Set of the sound is registered afterwards
C25_StopDuringLoad ==
    [][\A s \in Sounds :
        (/\ lastOp.op \in {"stop", "deleted"} /\ lastOp.sound = s
         /\ loadingCalls[s] > 0
         /\ lastOp'.op = "loaded" /\ lastOp'.sound = s)
            => s \notin DOMAIN playingSounds']_vars

---------------------------------------------------------------------------
(* End of track: a looping and a non-looping sound, on an owner or not *)

InitStop ==
    /\ InitEngine
    /\ InitWorld
    /\ InitIdleCalc
    /\ peer = NoPeer
    /\ exists = {"b", "c"}
    /\ mode = [p \in Playlists |-> "sequential"]
    /\ docRepeat = [s \in Sounds |-> s # "b"]
    /\ isOwner \in BOOLEAN
    /\ isGM = isOwner

NextStop ==
    \/ \E s \in Sounds : Start(s)
    \/ \E s \in Sounds : LoadResolve(s)
    \/ \E s \in Sounds : UpdateApplied(s)
    \/ \E s \in Sounds : StopRequest(s)
    \/ \E s \in Sounds, l \in Layers : AdvanceClock(s, l)
    \/ MonitorTick

SpecStop == InitStop /\ [][NextStop]_vars

\* C26: on a monitor tick a Track Set is removed exactly when its sound does
\* not loop, its primary layer is playing and the primary's clock is within
\* 0.2 s of its (positive) duration.  A Track Set removed by the tick went
\* through the explicit stop: no layer of it is left playing, playing:false
\* is requested under the conditions of an explicit stop (owner, document
\* playing and present), and none of its layers was resynced in the tick.
\* A looping Track Set stays registered
C26_EndOfTrackStop ==
    [][lastOp'.op = "tick" =>
        \A s \in DOMAIN playingSounds :
            LET e    == playingSounds[s]
                prim == IF "low" \in DOMAIN e THEN "low"
                        ELSE IF "mid" \in DOMAIN e THEN "mid" ELSE "high"
                finished == /\ ~docRepeat[s]
                            /\ e[prim].playing
                            /\ TrackLen > 0
                            /\ e[prim].currentTime >= TrackLen - EndWindow
                requested == isOwner /\ docPlaying[s] /\ s \in exists
            IN /\ (s \notin DOMAIN playingSounds') <=> finished
               /\ finished =>
                    /\ orphans' = orphans
                    /\ (s \in lastOp'.notified) <=> requested
                    /\ updates'[s] = IF requested
                                     THEN Append(updates[s], FALSE)
                                     ELSE updates[s]
                    /\ \A l \in Layers : <<s, l>> \notin lastOp'.resynced
               /\ docRepeat[s] => s \in DOMAIN playingSounds']_vars

\* a tick has stopped the non-looping b at its end of track and requested
\* playing:false for its document
C26_Witness ==
    /\ lastOp.op = "tick"
    /\ lastOp.notified = {"b"}
    /\ lastOp.resynced = {}
    /\ "b" \notin DOMAIN playingSounds
    /\ ~docRepeat["b"]
    /\ ~driftMonitorInterval

---------------------------------------------------------------------------
(* Layers: a sound configured with any admissible set of layers *)

\* a sound is played when it has a Mid or a Low path; High is the base path
LayerSets == {ls \in SUBSET Layers : "mid" \in ls \/ "low" \in ls}

LayerIntensities == {0, (3 * One) \div 10, One, One + One \div 5}

InitLayers ==
    /\ InitEngine
    /\ InitIdleCalc
    /\ peer = NoPeer
    /\ paths \in {ps \in [Sounds -> LayerSets] :
                     ps["b"] = {"mid", "high"} /\ ps["c"] = {"low", "high"}}
    /\ docVolume = [s \in Sounds |-> BaseRes]
    /\ exists = {"a"}
    /\ mode = [p \in Playlists |-> "simultaneous"]
    /\ docRepeat = [s \in Sounds |-> TRUE]
    /\ isOwner = FALSE
    /\ isGM = FALSE

NextLayers ==
    \/ \E s \in Sounds : Start(s)
    \/ \E s \in Sounds : LoadResolve(s)
    \/ \E s \in Sounds : StopRequest(s)
    \/ \E x \in LayerIntensities : SetGlobalIntensity(x, FALSE)
    \/ \E x \in MasterInputs : SetMasterVolume(x)
    \/ \E en \in BOOLEAN : SetCustomMixEnabled(en, FALSE)
    \/ \E x \in PersistCustom : SetCustomVolume("mid", x, FALSE)
    \/ \E s \in Sounds, v \in BaseVolumes : SoundVolumeChanged(s, v)

SpecLayers == InitLayers /\ [][NextLayers]_vars

\* C27: while custom mix is off, a registered Track Set with exactly two
\* layers has the layer of lower intensity (Low before Mid before High) at
\* (1 - intensity) x master x base and the other one at intensity x master
\* x base, and a Track Set with exactly one layer has it at master x base
C27_FewerLayers ==
    ~customMixEnabled =>
        \A s \in DOMAIN playingSounds :
            LET e    == playingSounds[s]
                rank(l) == IF l = "low" THEN 1 ELSE IF l = "mid" THEN 2 ELSE 3
                full == One * masterVolume * docVolume[s]
            IN /\ Cardinality(DOMAIN e) = 2 =>
                    \A lo \in DOMAIN e, hi \in DOMAIN e :
                        rank(lo) < rank(hi) =>
                            /\ e[lo].volume = (One - intensity) * masterVolume * docVolume[s]
                            /\ e[hi].volume = intensity * masterVolume * docVolume[s]
               /\ Cardinality(DOMAIN e) = 1 =>
                    \A l \in DOMAIN e : e[l].volume = full

\* a Low+Mid Track Set at intensity 0.3 and a reduced master and base
\* volume: Low is the louder layer
C27_Witness ==
    /\ ~customMixEnabled
    /\ "a" \in DOMAIN playingSounds
    /\ DOMAIN playingSounds["a"] = {"low", "mid"}
    /\ intensity = (3 * One) \div 10
    /\ masterVolume = 50
    /\ docVolume["a"] = 1
    /\ playingSounds["a"]["low"].volume > playingSounds["a"]["mid"].volume
    /\ playingSounds["a"]["mid"].volume > 0

---------------------------------------------------------------------------
(* Override: manual, synced and timer-driven intensity changes around combat *)

SyncedInputs == {(7 * One) \div 10}

NextOverride ==
    \/ CombatStart("e1")
    \/ DeleteCombat("e1")
    \/ \E dt \in TickGaps : FadeTick(dt)
    \/ \E x \in ManualInputs : SetGlobalIntensity(x, FALSE)
    \/ \E x \in SyncedInputs : SetGlobalIntensity(x, TRUE)
    \/ \E x \in MasterInputs : SetMasterVolume(x)
    \/ SettingChanged

SpecOverride == InitCombat /\ [][NextOverride]_vars

\* C29: userOverrideDuringCombat turns true only in a setGlobalIntensity
\* call with fromSync = false made while a restore point is held (directly
\* or through setMasterVolume); a fade tick, a delivered setting change and
\* a call with fromSync = true never turn it true, and no setGlobalIntensity
\* call turns it true while no restore point is held
C29_OverrideOnlyByUser ==
    [][LET rises  == userOverrideDuringCombat' /\ ~userOverrideDuringCombat
           manual == /\ lastOp'.op \in {"setGlobalIntensity", "setMasterVolume"}
                     /\ lastOp'.outcome = "user"
           synced == \/ lastOp'.op = "settingChanged"
                     \/ lastOp'.op = "setGlobalIntensity" /\ lastOp'.outcome = "sync"
       IN /\ rises => (manual /\ preCombatIntensity # NoSnapshot)
          /\ lastOp'.op = "fadeTick" => ~rises
          /\ synced => ~rises
          /\ (lastOp'.op \in {"setGlobalIntensity", "setMasterVolume"}
                 /\ preCombatIntensity = NoSnapshot) => ~rises
      ]_vars

\* a manual change during an encounter, after the fade to the combat
\* intensity has finished
C29_Witness ==
    /\ userOverrideDuringCombat
    /\ preCombatIntensity # NoSnapshot
    /\ lastOp.op = "setGlobalIntensity"
    /\ lastOp.outcome = "user"
    /\ fadeInterval = NoFade
    /\ \E c \in Encounters : combats[c] = "started"

\* C30: when the last active encounter ends with the policy enabled and
\* userOverrideDuringCombat true, the deleteCombat hook starts no fade and
\* leaves the intensity as it is, and after it preCombatIntensity is empty
\* and userOverrideDuringCombat is false
C30_OverrideKeepsIntensity ==
    [][\A c \in Encounters :
        (/\ lastOp'.op = "deleteCombat" /\ lastOp'.sound = c
         /\ combats[c] = "started"
         /\ \A o \in Encounters \ {c} : combats[o] # "started"
         /\ settings.autoSetCombatIntensity
         /\ userOverrideDuringCombat)
            => /\ fadeInterval' = fadeInterval
               /\ intensity' = intensity
               /\ preCombatIntensity' = NoSnapshot
               /\ ~userOverrideDuringCombat'
      ]_vars

\* the last encounter has just ended after a manual change: the manual
\* intensity is kept and the policy state is cleared
C30_Witness ==
    /\ lastOp.op = "deleteCombat"
    /\ lastOp.outcome = "kept"
    /\ combats[lastOp.sound] = "ended"
    /\ \A c \in Encounters : combats[c] # "started"
    /\ intensity \in ManualInputs
    /\ fadeInterval = NoFade
    /\ preCombatIntensity = NoSnapshot
    /\ ~userOverrideDuringCombat

---------------------------------------------------------------------------
(* Fade timers and what they persist, checked under SpecFade *)

\* C31: on a GM client a fade tick before completion writes no persisted
\* intensity, the completing tick writes it exactly once and ends the fade,
\* and a fadeTo that supersedes a running fade writes nothing; on any other
\* client no fade tick writes the persisted intensity
C31_FadePersistence ==
    [][/\ lastOp'.op = "fadeTick"
          => /\ lastOp'.outcome = "running"
                   => /\ inbox' = inbox
                      /\ settings' = settings
             /\ (lastOp'.outcome = "complete" /\ isGM)
                   => /\ inbox'["local"] =
                             Append(inbox["local"],
                                    Msg("currentIntensity", "-", settings'.currentIntensity))
                      /\ ~fadeInterval'.active
             /\ ~isGM
                   => /\ inbox' = inbox
                      /\ settings' = settings
       /\ lastOp'.op = "fadeTo"
          => /\ inbox' = inbox
             /\ settings' = settings]_vars

\* a fade to 0.8 on a GM client has completed after at least one earlier
\* tick, and its single write is the only undelivered change
C31_Witness ==
    /\ isGM
    /\ lastOp.op = "fadeTick"
    /\ lastOp.outcome = "complete"
    /\ inbox["local"] = << Msg("currentIntensity", "-", 80) >>
    /\ settings.currentIntensity = 80

\* C32: at most one fade interval is scheduled at any time, the one
\* this.fadeInterval refers to; fadeTo leaves exactly the new interval
\* scheduled, with the current intensity as its start; and every fade tick is
\* a tick of that interval: the intensity it stores is the eased value of
\* the current fade and what it persists is the current fade's target
C32_SingleFadeTimer ==
    /\ [](intervals = IF fadeInterval.active THEN {fadeInterval} ELSE {})
    /\ [][/\ lastOp'.op = "fadeTo"
             => /\ intervals' = {fadeInterval'}
                /\ fadeInterval'.elapsed = 0
                /\ fadeInterval'.start = intensity
          /\ lastOp'.op = "fadeTick"
             => /\ fadeInterval.active
                /\ \E dt \in TickGaps :
                      intensity' = Clamp01(FadeValue(fadeInterval,
                                               Min(fadeInterval.elapsed + dt,
                                                   fadeInterval.duration)), One)
                /\ settings' # settings
                      => settings'.currentIntensity = RoundPercent(fadeInterval.target)
         ]_vars

\* a fade to 0.8 was superseded halfway by a fade to 1.5, which has ticked
\* once: the intensity is above 0.8 and only the new interval is scheduled
C32_Witness ==
    /\ lastOp.op = "fadeTick"
    /\ lastOp.outcome = "running"
    /\ fadeInterval.active
    /\ fadeInterval.target = One + One \div 2
    /\ fadeInterval.start > (50 * One) \div Percent
    /\ fadeInterval.start < (4 * One) \div 5
    /\ intensity > fadeInterval.start
    /\ intervals = {fadeInterval}

---------------------------------------------------------------------------
(* The frame of setMasterVolume, checked under SpecOverride *)

\* C33: setMasterVolume leaves the intensity, the persisted shared
\* intensity, preCombatIntensity and userOverrideDuringCombat unchanged,
\* also when it is called while a restore point is held
C33_MasterVolumeFrame ==
    [][lastOp'.op = "setMasterVolume"
          => /\ intensity' = intensity
             /\ settings'.currentIntensity = settings.currentIntensity
             /\ preCombatIntensity' = preCombatIntensity
             /\ userOverrideDuringCombat' = userOverrideDuringCombat]_vars

---------------------------------------------------------------------------
(* The document's playing flag against the active set, under SpecStop *)

\* C34: on a client that owns the documents, whenever no start of a sound
\* is in progress and every update requested for it has been applied, its
\* document is playing exactly when a Track Set is registered for it
C34_PlayingFlagMatches ==
    isOwner =>
        \A s \in Sounds :
            (/\ s \notin loadingSounds
             /\ loadingCalls[s] = 0
             /\ updatingCalls[s] = 0
             /\ updates[s] = << >>)
                => (docPlaying[s] <=> s \in DOMAIN playingSounds)

---------------------------------------------------------------------------
(* Restore: encounters start and end with no manual intensity change *)

NextRestore ==
    \/ \E c \in Encounters : CombatStart(c)
    \/ \E c \in Encounters : DeleteCombat(c)
    \/ \E dt \in TickGaps : FadeTick(dt)
    \/ SettingChanged

SpecRestore == InitCombat /\ [][NextRestore]_vars

\* C35: with no manual intensity change, whenever no encounter is active
\* and no fade is running the intensity is the one the engine had before
\* the first encounter started
C35_RestoresOriginalIntensity ==
    (/\ \A c \in Encounters : combats[c] # "started"
     /\ ~fadeInterval.active)
        => intensity = (50 * One) \div Percent

---------------------------------------------------------------------------
(* The lifecycle with playlists being deleted *)

NextPlaylist ==
    \/ \E s \in Sounds : Start(s)
    \/ \E s \in Sounds : LoadResolve(s)
    \/ \E s \in Sounds : s \in exists /\ UpdateApplied(s)
    \/ \E s \in Sounds : StopRequest(s)
    \/ \E p \in Playlists : DeletePlaylist(p)
    \/ MonitorTick

SpecPlaylist == Init /\ [][NextPlaylist]_vars

\* C36: right after the deletePlaylist hook has run for playlist p, no
\* registered Track Set belongs to p, no layer of a removed Track Set is
\* left playing, no playing:false update was requested, and the monitor
\* timer is cleared if the active set became empty
C36_PlaylistDeleted ==
    [][\A p \in Playlists :
        (lastOp'.op = "deletePlaylist" /\ lastOp'.sound = p)
            => /\ \A s \in DOMAIN playingSounds' : Parent(s) # p
               /\ orphans' = orphans
               /\ updates' = updates
               /\ lastOp'.notified = {}
               /\ (DOMAIN playingSounds # {} /\ DOMAIN playingSounds' = {})
                     => ~driftMonitorInterval'
      ]_vars

\* playlist P1 was deleted while both of its sounds were registered and
\* their documents playing on the owning client: the active set is empty,
\* the timer is cleared and nothing is waiting to be applied
C36_Witness ==
    /\ lastOp.op = "deletePlaylist"
    /\ lastOp.sound = "P1"
    /\ lastOp.outcome = "stopped"
    /\ isOwner
    /\ mode["P1"] = "simultaneous"
    /\ docPlaying["a"] /\ docPlaying["b"]
    /\ exists = {"c"}
    /\ DOMAIN playingSounds = {}
    /\ ~driftMonitorInterval
    /\ \A s \in Sounds : updates[s] = << >>

---------------------------------------------------------------------------
(* The frame of start and stop, checked under Spec *)

\* C37: a start of sound s, up to and including the registration of its
\* Track Set, leaves every Track Set of another playlist, and every sibling
\* Track Set when the playlist of s is simultaneous, registered and as it
\* was; a stop of s removes the Track Set of s and leaves every other one
\* registered and as it was
C37_StartStopFrame ==
    [][\A s \in Sounds :
        LET others == (DOMAIN playingSounds) \ {s}
            kept(o) == /\ o \in DOMAIN playingSounds'
                       /\ playingSounds'[o] = playingSounds[o]
        IN /\ (lastOp'.op = "start" /\ lastOp'.sound = s)
                => \A o \in others :
                      (Parent(o) # Parent(s) \/ mode[Parent(s)] = "simultaneous")
                          => kept(o)
           /\ (lastOp'.op = "loaded" /\ lastOp'.sound = s)
                => \A o \in others : kept(o)
           /\ (lastOp'.op = "stop" /\ lastOp'.sound = s)
                => /\ s \notin DOMAIN playingSounds'
                   /\ \A o \in others : kept(o)
      ]_vars

\* a start of a in the sequential playlist P1 has stopped its sibling b and
\* left c, of playlist P2, registered with both layers playing
C37_Witness ==
    /\ lastOp.op = "start"
    /\ lastOp.sound = "a"
    /\ lastOp.outcome = "loading"
    /\ mode["P1"] = "sequential"
    /\ "b" \in lastOp.notified
    /\ DOMAIN playingSounds = {"c"}
    /\ PlayingLayers(playingSounds["c"]) = {"low", "high"}

---------------------------------------------------------------------------
(* The loading guard, checked under Spec *)

\* C38: a sound is in the loading set only while a load for it is in
\* flight, and a start is dropped by the guard only then: once the load of
\* a start attempt has settled, a later start of the sound is not dropped
C38_GuardOnlyWhileLoading ==
    /\ [](\A s \in Sounds : s \in loadingSounds => loadingCalls[s] > 0)
    /\ [][\A s \in Sounds :
            (lastOp'.op = "start" /\ lastOp'.sound = s /\ lastOp'.outcome = "dropped")
                => loadingCalls[s] > 0]_vars

---------------------------------------------------------------------------
(* The mix curve outside [0,1], checked under SpecMix *)

\* C39: calculateMix of an argument outside [0,1] is calculateMix of the
\* argument clamped into [0,1]
C39_MixClampsArgument ==
    mixResult.done => mixResult.mix = calculateMix(Max(0, Min(One, mixArg)))

---------------------------------------------------------------------------
(* What a completed fade persists, checked under SpecFade *)

\* C40: the tick that completes a fade on a GM client persists the rounded
\* percent of the intensity the engine then holds, whatever the target was,
\* and so the persisted intensity is always within 0..100
C40_FadePersistsStoredIntensity ==
    /\ [][(lastOp'.op = "fadeTick" /\ lastOp'.outcome = "complete" /\ isGM)
             => settings'.currentIntensity = RoundPercent(intensity')]_vars
    /\ [](0 <= settings.currentIntensity /\ settings.currentIntensity <= Percent)

==========================================================================
